---------------------------- MODULE Spec2Model ----------------------------
(***************************************************************************)
(* A model of source/gui/configwindow.py (DXF2GCODE): the ConfigWindow     *)
(* dialog (populate / validate / commit and the OK, Apply and Cancel       *)
(* handlers), the configspec parser, and the Cfg* input widgets.           *)
(*                                                                         *)
(* Python values are tagged records ([type |-> "int", v |-> 3]); a Python  *)
(* string is a sequence of one-character strings, so that strip, split,    *)
(* find, int() and str() are computed the way the code computes them.      *)
(* Names of sections, keys and table columns are TLA+ strings.             *)
(***************************************************************************)
EXTENDS Integers, Sequences, FiniteSets, TLC

\* ------------------------------------------------------------------------
\* Bounds of the model
\* ------------------------------------------------------------------------
\* most rows the user may have in a table
MaxRows == 2
\* the add button is clicked while max_tool_number is below this
MaxToolNumber == 3

\* ------------------------------------------------------------------------
\* Python values
\* ------------------------------------------------------------------------
None == [type |-> "NoneType"]
PyInt(n) == [type |-> "int", v |-> n]
PyStr(s) == [type |-> "str", v |-> s]
PyList(l) == [type |-> "list", v |-> l]
PyDict(f) == [type |-> "dict", val |-> f]
\* a dict whose iteration order matters (the window definition, the configspec)
OrderedDict(ks, f) == [type |-> "dict", keys |-> ks, val |-> f]
\* an instance of a Cfg* widget class, held by reference
QWidget(id) == [type |-> "QWidget", id |-> id]
\* a QLayout: isinstance(x, (QWidget, QLayout)) holds of it too, and it has
\* none of setSpec, setValue, validateValue and getValue
QLayout(id) == [type |-> "QLayout", id |-> id]
\* anything that is neither a dict nor a widget
PyObject == [type |-> "object"]

EmptyFn == [x \in {} |-> None]
Min2(a, b) == IF a < b THEN a ELSE b
Max2(a, b) == IF a > b THEN a ELSE b

\* ------------------------------------------------------------------------
\* Python string methods, on sequences of characters
\* ------------------------------------------------------------------------
Digits == <<"0", "1", "2", "3", "4", "5", "6", "7", "8", "9">>
IsDigit(c) == \E i \in 1..10 : Digits[i] = c
DigitVal(c) == (CHOOSE i \in 1..10 : Digits[i] = c) - 1

RECURSIVE lstrip(_, _)
lstrip(s, chars) ==
    IF s # <<>> /\ Head(s) \in chars THEN lstrip(Tail(s), chars) ELSE s

RECURSIVE rstrip(_, _)
rstrip(s, chars) ==
    IF s # <<>> /\ s[Len(s)] \in chars
    THEN rstrip(SubSeq(s, 1, Len(s) - 1), chars) ELSE s

\* str.strip(chars); str.strip() is strip(s, Whitespace)
strip(s, chars) == rstrip(lstrip(s, chars), chars)
Whitespace == {" ", "\n"}

startswith(s, prefix) ==
    Len(prefix) <= Len(s) /\ SubSeq(s, 1, Len(prefix)) = prefix

RECURSIVE findFrom(_, _, _)
\* the first position >= i (counted from 1) where sub occurs in s, or 0
findFrom(s, sub, i) ==
    IF i + Len(sub) - 1 > Len(s) THEN 0
    ELSE IF SubSeq(s, i, i + Len(sub) - 1) = sub THEN i
    ELSE findFrom(s, sub, i + 1)

\* str.find(sub, start): an index counted from 0, or -1
find(s, sub, start) == findFrom(s, sub, start + 1) - 1

\* sub in s
contains(s, sub) == find(s, sub, 0) >= 0

RECURSIVE split(_, _)
RECURSIVE splitAt(_, _, _)
\* the split at the first occurrence of sep, i being its position or 0
splitAt(s, sep, i) ==
    IF i = 0 THEN <<s>>
    ELSE <<SubSeq(s, 1, i - 1)>> \o split(SubSeq(s, i + Len(sep), Len(s)), sep)

\* str.split(sep), sep not empty
split(s, sep) == splitAt(s, sep, findFrom(s, sep, 1))

RECURSIVE replace(_, _, _)
RECURSIVE replaceAt(_, _, _, _)
\* the replacement from the first occurrence of old on, i being its position or 0
replaceAt(s, old, new, i) ==
    IF i = 0 THEN s
    ELSE SubSeq(s, 1, i - 1) \o new
         \o replace(SubSeq(s, i + Len(old), Len(s)), old, new)

\* str.replace(old, new), old not empty
replace(s, old, new) == replaceAt(s, old, new, findFrom(s, old, 1))

RECURSIVE join(_, _)
\* sep.join(list)
join(sep, list) ==
    IF list = <<>> THEN <<>>
    ELSE IF Len(list) = 1 THEN list[1]
    ELSE list[1] \o sep \o join(sep, Tail(list))

RECURSIVE DigitsValue(_, _)
DigitsValue(s, acc) ==
    IF s = <<>> THEN acc ELSE DigitsValue(Tail(s), 10 * acc + DigitVal(Head(s)))

\* a sign in front of the digits
Signed(t) == t # <<>> /\ Head(t) \in {"-", "+"}
Negative(t) == t # <<>> /\ Head(t) = "-"
Unsigned(t) == IF Signed(t) THEN Tail(t) ELSE t
AllDigits(x) == \A i \in 1..Len(x) : IsDigit(x[i])

intDigits(negative, d) ==
    IF d # <<>> /\ AllDigits(d)
    THEN [ok |-> TRUE, v |-> IF negative THEN 0 - DigitsValue(d, 0) ELSE DigitsValue(d, 0)]
    ELSE [ok |-> FALSE, v |-> 0]

intStripped(t) == intDigits(Negative(t), Unsigned(t))

\* int(s) for a string: surrounding blanks, an optional sign, decimal digits.
\* ok = FALSE stands for ValueError.
int(s) == intStripped(strip(s, Whitespace))

RECURSIVE strNat(_)
strNat(n) == IF n < 10 THEN <<Digits[n + 1]>>
             ELSE strNat(n \div 10) \o <<Digits[(n % 10) + 1]>>

\* str(n) for an int
str(n) == IF n < 0 THEN <<"-">> \o strNat(0 - n) ELSE strNat(n)

\* A float w + m/1000 with 0 <= m < 1000 (so -1.5 is w = -2, m = 500)
PyFloat(w, m) == [type |-> "float", v |-> w, m |-> m]

\* the thousandths of a number (an int has none)
Frac(a) == IF a.type = "float" THEN a.m ELSE 0
\* a < b for two numbers (int or float)
NumLess(a, b) == a.v < b.v \/ (a.v = b.v /\ Frac(a) < Frac(b))
NumEq(a, b) == a.v = b.v /\ Frac(a) = Frac(b)

RECURSIVE padFraction(_)
\* the digits after the decimal point, as thousandths (three digits are kept)
padFraction(d) == IF Len(d) >= 3 THEN SubSeq(d, 1, 3) ELSE padFraction(d \o <<"0">>)

floatValue(negative, w, m) ==
    IF negative
    THEN (IF m = 0 THEN PyFloat(0 - w, 0) ELSE PyFloat(0 - w - 1, 1000 - m))
    ELSE PyFloat(w, m)

floatParts(negative, whole, frac) ==
    IF AllDigits(whole) /\ AllDigits(frac) /\ Len(whole) + Len(frac) > 0
    THEN [ok |-> TRUE,
          v |-> floatValue(negative, DigitsValue(whole, 0),
                           DigitsValue(padFraction(frac), 0))]
    ELSE [ok |-> FALSE, v |-> PyFloat(0, 0)]

floatDigits(negative, d, dot) ==
    floatParts(negative,
               IF dot = 0 THEN d ELSE SubSeq(d, 1, dot - 1),
               IF dot = 0 THEN <<>> ELSE SubSeq(d, dot + 1, Len(d)))

floatStripped(t) == floatDigits(Negative(t), Unsigned(t), findFrom(Unsigned(t), <<".">>, 1))

\* float(s) for a string: surrounding blanks, an optional sign, digits with an
\* optional decimal point. ok = FALSE stands for ValueError.
float(s) == floatStripped(strip(s, Whitespace))

\* float(value) for any Python value; ok = FALSE stands for ValueError
pyfloat(value) ==
    IF value.type = "float" THEN [ok |-> TRUE, v |-> value]
    ELSE IF value.type = "int" THEN [ok |-> TRUE, v |-> PyFloat(value.v, 0)]
    ELSE float(value.v)

\* int(value) for any Python value (a float is truncated towards zero);
\* ok = FALSE stands for ValueError
pyint(value) ==
    IF value.type = "int" THEN [ok |-> TRUE, v |-> value.v]
    ELSE IF value.type = "float"
    THEN [ok |-> TRUE, v |-> IF value.v < 0 /\ value.m > 0 THEN value.v + 1 ELSE value.v]
    ELSE int(value.v)

\* ------------------------------------------------------------------------
\* ConfigWindow.configspecParser
\* ------------------------------------------------------------------------
\* the spec dict handed to setSpec
Spec4(minimum, maximum, string_list, comment) ==
    [minimum |-> minimum, maximum |-> maximum,
     string_list |-> string_list, comment |-> comment]

\* string[pos_init:pos_end].split(','), pos_init being moved past the name
ExtractedSection(string, pos_init, pos_start, pos_end) ==
    IF pos_init >= 0 /\ pos_end > pos_start
    THEN split(SubSeq(string, pos_start + 1, pos_end), <<",">>)
    ELSE <<>>

ExtractedFrom(attribute_name, string, pos_init) ==
    ExtractedSection(string, pos_init, pos_init + Len(attribute_name) + 1,
                     find(string, <<")">>, pos_init + Len(attribute_name) + 1))

configspecParserExctractSections(attribute_name, string) ==
    ExtractedFrom(attribute_name, string, find(string, attribute_name \o <<"(">>, 0))

\* string_list[i] of the "option" loop, once stripped
OptionItem(item) ==
    IF startswith(item, <<"\"">>) THEN <<strip(item, {"\""})>>
    ELSE IF startswith(item, <<"'">>) THEN <<strip(item, {"'"})>>
    ELSE <<>>

RECURSIVE OptionLoop(_, _)
\* the "option" while loop: quoted items are kept without their quotes, the
\* others are deleted
OptionLoop(string_list, i) ==
    IF i > Len(string_list) THEN string_list
    ELSE IF OptionItem(strip(string_list[i], Whitespace)) # <<>>
    THEN OptionLoop([string_list EXCEPT
                         ![i] = OptionItem(strip(string_list[i], Whitespace))[1]], i + 1)
    ELSE OptionLoop(SubSeq(string_list, 1, i - 1)
                    \o SubSeq(string_list, i + 1, Len(string_list)), i)

\* a variant that lets the ValueError of the conversion out
OrNone_Raising(kind, r) ==
    IF ~r.ok THEN [type |-> "ValueError"] ELSE IF kind = "int" THEN PyInt(r.v) ELSE r.v

\* the value of a conversion, as a Python value; None on ValueError
OrNone(kind, r) == IF ~r.ok THEN None ELSE IF kind = "int" THEN PyInt(r.v) ELSE r.v

\* int(element) or float(element)
Convert(kind, element) ==
    IF kind = "int" THEN OrNone(kind, int(element)) ELSE OrNone(kind, float(element))

\* a variant that leaves the "=" in front of the number
WithoutKey_KeepingEquals(element, key) == strip(replace(element, key, <<>>), {" "})

\* element.replace(key, '').strip(' =')
WithoutKey(element, key) == strip(replace(element, key, <<>>), {" ", "="})

RECURSIVE BoundsLoop(_, _, _, _, _)
RECURSIVE BoundsMax(_, _, _, _, _, _)
\* the end of an iteration: "if maximum is None and 'max' in element"
BoundsMax(kind, string_list, i, minimum, maximum, element) ==
    IF maximum = None /\ contains(element, <<"m", "a", "x">>)
    THEN BoundsLoop(kind, string_list, i + 1, minimum,
                    Convert(kind, WithoutKey(element, <<"m", "a", "x">>)))
    ELSE BoundsLoop(kind, string_list, i + 1, minimum, maximum)

RECURSIVE BoundsMin(_, _, _, _, _, _)
\* the middle of an iteration: "if minimum is None and 'min' in element"
BoundsMin(kind, string_list, i, minimum, maximum, element) ==
    IF minimum = None /\ contains(element, <<"m", "i", "n">>)
    THEN BoundsMax(kind, string_list, i,
                   Convert(kind, WithoutKey(element, <<"m", "i", "n">>)), maximum,
                   WithoutKey(element, <<"m", "i", "n">>))
    ELSE BoundsMax(kind, string_list, i, minimum, maximum, element)

\* a variant whose bare numbers never reach the maximum
BoundsLoop_MinimumOnly(kind, string_list, i, minimum, maximum) ==
    IF i > Len(string_list)
    THEN [string_list |-> string_list, minimum |-> minimum, maximum |-> maximum]
    ELSE IF string_list[i] = <<>>
    THEN BoundsLoop(kind, SubSeq(string_list, 1, i - 1)
                          \o SubSeq(string_list, i + 1, Len(string_list)),
                    i, minimum, maximum)
    ELSE BoundsMin(kind, string_list, i,
                   IF minimum = None
                   THEN Convert(kind, strip(string_list[i], Whitespace)) ELSE minimum,
                   maximum,
                   strip(string_list[i], Whitespace))

\* the "integer"/"string" while loop (kind = "int") and the "float" one
BoundsLoop(kind, string_list, i, minimum, maximum) ==
    IF i > Len(string_list)
    THEN [string_list |-> string_list, minimum |-> minimum, maximum |-> maximum]
    ELSE IF string_list[i] = <<>>
    THEN BoundsLoop(kind, SubSeq(string_list, 1, i - 1)
                          \o SubSeq(string_list, i + 1, Len(string_list)),
                    i, minimum, maximum)
    ELSE \* positional: the first number is the minimum, the next the maximum
         BoundsMin(kind, string_list, i,
                   IF minimum = None
                   THEN Convert(kind, strip(string_list[i], Whitespace)) ELSE minimum,
                   IF minimum # None /\ maximum = None
                   THEN Convert(kind, strip(string_list[i], Whitespace)) ELSE maximum,
                   strip(string_list[i], Whitespace))

RECURSIVE ConcatStripped(_)
ConcatStripped(comments) ==
    IF comments = <<>> THEN <<>>
    ELSE strip(Head(comments), Whitespace) \o ConcatStripped(Tail(comments))

\* a variant that leaves the "#" between the lines in place
CommentsString_KeepingHashes(comments) ==
    IF Len(comments) > 0
    THEN strip(ConcatStripped(comments), {" ", "#"})
    ELSE <<>>

\* the comment of an entry, from the list of its comment lines
CommentsString(comments) ==
    IF Len(comments) > 0
    THEN replace(strip(ConcatStripped(comments), {" ", "#"}), <<"#">>, <<"\n">>)
    ELSE <<>>

\* the result dict, from what a loop has left
SpecOf(r, comment) == Spec4(r.minimum, r.maximum, r.string_list, comment)

\* "if len(string_list) <= 0": the float(...) section
ParsedFloat(string, comment, r) ==
    IF Len(r.string_list) <= 0
    THEN SpecOf(BoundsLoop("float",
                           configspecParserExctractSections(
                               <<"f", "l", "o", "a", "t">>, string),
                           1, r.minimum, r.maximum), comment)
    ELSE SpecOf(r, comment)

\* "if len(string_list) <= 0": the integer(...) section, else the string(...) one
ParsedInteger(string, comment, integers) ==
    ParsedFloat(string, comment,
                BoundsLoop("int",
                           IF Len(integers) <= 0
                           THEN configspecParserExctractSections(
                                    <<"s", "t", "r", "i", "n", "g">>, string)
                           ELSE integers,
                           1, None, None))

\* the option(...) section
ParsedOption(string, comment, options) ==
    IF Len(options) <= 0
    THEN ParsedInteger(string, comment,
                       configspecParserExctractSections(
                           <<"i", "n", "t", "e", "g", "e", "r">>, string))
    ELSE Spec4(None, None, options, comment)

\* a variant that does not prepend the title of the row name column
configspecParser_NoRowName(configspec, comments) ==
    IF configspec.type = "dict"
    THEN Spec4(None, None,
               IF "__many__" \in DOMAIN configspec.val
                  /\ configspec.val["__many__"].type = "dict"
               THEN configspec.val["__many__"].keys
               ELSE <<>>,
               CommentsString(comments))
    ELSE ParsedOption(configspec.v, CommentsString(comments),
                      OptionLoop(configspecParserExctractSections(
                                     <<"o", "p", "t", "i", "o", "n">>, configspec.v), 1))

configspecParser(configspec, comments) ==
    IF configspec.type = "dict"
    THEN \* a table: the column names are the keys of the __many__ section
         Spec4(None, None,
               IF "__many__" \in DOMAIN configspec.val
                  /\ configspec.val["__many__"].type = "dict"
               THEN <<"">> \o configspec.val["__many__"].keys
               ELSE <<>>,
               CommentsString(comments))
    ELSE ParsedOption(configspec.v, CommentsString(comments),
                      OptionLoop(configspecParserExctractSections(
                                     <<"o", "p", "t", "i", "o", "n">>, configspec.v), 1))

\* ------------------------------------------------------------------------
\* The input widgets. A widget is a record of its fields and of the state of
\* the Qt widgets it owns; every method returns the widget after the call.
\* validateValue returns [ok, errors], errors being the sequence of the
\* messages the code concatenates into one string.
\* ------------------------------------------------------------------------
Result(ok, errors) == [ok |-> ok, errors |-> errors]

\* setWhatsThis(spec['comment']) when the comment is not empty
SetComment(self, spec) ==
    IF spec.comment # <<>> THEN [self EXCEPT !.whatsThis = spec.comment] ELSE self

\* ---- CfgCheckBox ----
CfgCheckBox(text, tristate) ==
    [class |-> "CfgCheckBox", text |-> text, tristate |-> tristate,
     checkState |-> "Unchecked", whatsThis |-> <<>>]

CfgCheckBox_setSpec(self, spec) == SetComment(self, spec)

CfgCheckBox_validateValue(self) == Result(TRUE, <<>>)

CfgCheckBox_getValue(self) ==
    IF self.checkState = "Unchecked" THEN PyInt(0)
    ELSE IF self.checkState = "Checked" THEN PyInt(1)
    ELSE PyInt(2)

\* QCheckBox.setCheckState: asking for PartiallyChecked turns tristate on
CfgCheckBox_setValue(self, value) ==
    IF value.type = "int" /\ value.v = 0 THEN [self EXCEPT !.checkState = "Unchecked"]
    ELSE IF value.type = "int" /\ value.v = 2
    THEN [self EXCEPT !.checkState = "PartiallyChecked", !.tristate = TRUE]
    ELSE [self EXCEPT !.checkState = "Checked"]

\* ---- QSpinBox / QDoubleSpinBox ----
\* the value a spin box keeps within its range
Bound(lo, x, hi) == IF NumLess(x, lo) THEN lo ELSE IF NumLess(hi, x) THEN hi ELSE x

\* QDoubleSpinBox keeps `decimals` digits after the point (0..3 here)
RoundStep(decimals) ==
    IF decimals = 0 THEN 1000 ELSE IF decimals = 1 THEN 100
    ELSE IF decimals = 2 THEN 10 ELSE 1

RoundedThousandths(m, step) == ((m + (step \div 2)) \div step) * step

RoundedFloat(w, m) == IF m >= 1000 THEN PyFloat(w + 1, 0) ELSE PyFloat(w, m)

RoundTo(x, decimals) ==
    IF x.type # "float" THEN x
    ELSE RoundedFloat(x.v, RoundedThousandths(x.m, RoundStep(decimals)))

\* a number as the spin box holds it: a float in a QDoubleSpinBox
AsHeld(box, x) ==
    IF box.double THEN RoundTo(pyfloat(x).v, box.decimals) ELSE PyInt(pyint(x).v)

QSpinBox(double) ==
    [double |-> double, decimals |-> 2,
     minimum |-> IF double THEN PyFloat(0, 0) ELSE PyInt(0),
     maximum |-> IF double THEN PyFloat(99, 990) ELSE PyInt(99),
     value |-> IF double THEN PyFloat(0, 0) ELSE PyInt(0)]

\* the range is kept consistent, and the value within it
WithRange(box, lo, hi) ==
    [box EXCEPT !.minimum = lo, !.maximum = hi, !.value = Bound(lo, @, hi)]

MinimumSet(box, lo) ==
    WithRange(box, lo, IF NumLess(box.maximum, lo) THEN lo ELSE box.maximum)

MaximumSet(box, hi) ==
    WithRange(box, IF NumLess(hi, box.minimum) THEN hi ELSE box.minimum, hi)

QSpinBox_setMinimum(box, minimum) == MinimumSet(box, AsHeld(box, minimum))

QSpinBox_setMaximum(box, maximum) == MaximumSet(box, AsHeld(box, maximum))

QSpinBox_setValue(box, value) ==
    [box EXCEPT !.value = Bound(box.minimum, AsHeld(box, value), box.maximum)]

\* the bounds setSpec falls back to
DefaultMinimum == -1000000000
DefaultMaximum == 1000000000

\* ---- CfgSpinBox, CfgDoubleSpinBox ----
\* a variant that leaves a bound alone when the spec does not state it
CfgSpinBox_setSpec_KeepingBounds(self, spec) ==
    SetComment(
        [self EXCEPT !.spinbox =
            IF spec.maximum # None
            THEN QSpinBox_setMaximum(
                     IF spec.minimum # None THEN QSpinBox_setMinimum(@, spec.minimum)
                     ELSE @,
                     spec.maximum)
            ELSE IF spec.minimum # None THEN QSpinBox_setMinimum(@, spec.minimum)
            ELSE @],
        spec)

CfgSpinBox_setSpec(self, spec) ==
    SetComment(
        [self EXCEPT !.spinbox =
            QSpinBox_setMaximum(
                QSpinBox_setMinimum(@, IF spec.minimum # None THEN spec.minimum
                                       ELSE PyInt(DefaultMinimum)),
                IF spec.maximum # None THEN spec.maximum ELSE PyInt(DefaultMaximum))],
        spec)

CfgSpinBox(text, minimum, maximum) ==
    CfgSpinBox_setSpec(
        [class |-> "CfgSpinBox", text |-> text, spinbox |-> QSpinBox(FALSE),
         whatsThis |-> <<>>],
        Spec4(minimum, maximum, <<>>, <<>>))

\* "if precision is not None: self.spinbox.setDecimals(precision)"
WithPrecision(self, precision) ==
    IF precision # None
    THEN [self EXCEPT !.spinbox.decimals = precision.v,
                      !.spinbox.minimum = RoundTo(@, precision.v),
                      !.spinbox.maximum = RoundTo(@, precision.v),
                      !.spinbox.value = RoundTo(@, precision.v)]
    ELSE self

CfgDoubleSpinBox(text, minimum, maximum, precision) ==
    WithPrecision(CfgSpinBox_setSpec(
                      [class |-> "CfgDoubleSpinBox", text |-> text,
                       spinbox |-> QSpinBox(TRUE), whatsThis |-> <<>>],
                      Spec4(minimum, maximum, <<>>, <<>>)),
                  precision)

CfgSpinBox_validateValue(self) == Result(TRUE, <<>>)

CfgSpinBox_getValue(self) == self.spinbox.value

CfgSpinBox_setValue(self, value) ==
    [self EXCEPT !.spinbox = QSpinBox_setValue(@, value)]

\* ---- CfgLineEdit ----
\* QLineEdit's default maxLength
QLineEditMaxLength == 32767

\* QLineEdit.setText and setMaxLength keep at most maxLength characters
Truncate(text, maxLength) ==
    IF Len(text) > maxLength THEN SubSeq(text, 1, maxLength) ELSE text

\* "if spec['minimum'] is not None: self.size_min = spec['minimum']"
SizeMinSet(self, spec) ==
    IF spec.minimum # None THEN [self EXCEPT !.size_min = spec.minimum.v] ELSE self

\* "if spec['maximum'] is not None: self.lineedit.setMaxLength(spec['maximum'])"
MaxLengthSet(self, spec) ==
    IF spec.maximum # None
    THEN [self EXCEPT !.maxLength = spec.maximum.v,
                      !.lineedit = Truncate(@, spec.maximum.v)]
    ELSE self

CfgLineEdit_setSpec(self, spec) ==
    SetComment(MaxLengthSet(SizeMinSet(self, spec), spec), spec)

CfgLineEdit_init(class, text, size_min, size_max) ==
    [CfgLineEdit_setSpec(
         [class |-> class, label |-> text, size_min |-> 0,
          maxLength |-> QLineEditMaxLength, lineedit |-> <<>>,
          separator |-> <<>>, whatsThis |-> <<>>],
         Spec4(size_min, size_max, <<>>, <<>>))
        EXCEPT !.size_min = IF size_min # None THEN size_min.v ELSE 0]

CfgLineEdit(text, size_min, size_max) ==
    CfgLineEdit_init("CfgLineEdit", text, size_min, size_max)

CfgLineEdit_validateValue(self) ==
    IF Len(self.lineedit) < self.size_min
    THEN Result(FALSE, <<[error |-> "Not enough chars", expected |-> self.size_min,
                          found |-> Len(self.lineedit), field |-> self.label]>>)
    ELSE Result(TRUE, <<>>)

CfgLineEdit_getValue(self) == PyStr(self.lineedit)

CfgLineEdit_setValue(self, value) ==
    [self EXCEPT !.lineedit = Truncate(value.v, self.maxLength)]

\* ---- CfgListEdit(CfgLineEdit) ----
\* CfgLineEdit.__init__(self, text + ..., size_max, parent): size_max lands in
\* the size_min parameter and parent (None) in size_max
CfgListEdit(text, separator, size_max) ==
    [CfgLineEdit_init("CfgListEdit", <<text, "use", separator, "as separator">>,
                      size_max, None)
        EXCEPT !.separator = separator]

\* a variant that leaves the items as split returns them
StripEach_Unstripped(item_list) == item_list

\* "for i in range(len(item_list)): item_list[i] = item_list[i].strip(' ')"
StripEach(item_list) == [i \in 1..Len(item_list) |-> strip(item_list[i], {" "})]

CfgListEdit_getValue(self) == PyList(StripEach(split(self.lineedit, self.separator)))

CfgListEdit_setValue(self, value) ==
    [self EXCEPT !.lineedit =
        Truncate(IF value.type = "list"
                 THEN join(self.separator \o <<" ">>, value.v)
                 ELSE value.v,
                 self.maxLength)]

\* ---- CfgComboBox ----
\* QComboBox.findText: the index of the first item equal to text, or -1
findText(items, text) ==
    IF \E i \in 1..Len(items) : items[i] = text
    THEN (CHOOSE i \in 1..Len(items) :
              items[i] = text /\ \A j \in 1..(i - 1) : items[j] # text) - 1
    ELSE -1

\* combobox.clear() then addItems(): the first item added becomes current
CfgComboBox_setSpec(self, spec) ==
    SetComment([self EXCEPT !.items = spec.string_list,
                            !.currentIndex = IF Len(spec.string_list) > 0 THEN 0 ELSE -1],
               spec)

CfgComboBox_setValue(self, value) ==
    [self EXCEPT !.currentIndex = findText(self.items, value.v)]

\* "if isinstance(items_list, (list, tuple)): self.setSpec(...)"
ComboItems(self, items_list) ==
    IF items_list.type = "list"
    THEN CfgComboBox_setSpec(self, Spec4(None, None, items_list.v, <<>>))
    ELSE self

\* "if default_item is not None: self.setValue(default_item)"
ComboDefault(self, default_item) ==
    IF default_item # None THEN CfgComboBox_setValue(self, default_item) ELSE self

CfgComboBox(text, items_list, default_item) ==
    ComboDefault(ComboItems([class |-> "CfgComboBox", label |-> text, items |-> <<>>,
                             currentIndex |-> -1, whatsThis |-> <<>>],
                            items_list),
                 default_item)

CfgComboBox_validateValue(self) == Result(TRUE, <<>>)

\* combobox.currentText()
CfgComboBox_getValue(self) ==
    IF self.currentIndex >= 0 THEN PyStr(self.items[self.currentIndex + 1])
    ELSE PyStr(<<>>)

\* ---- CfgTable, CfgTableCustomActions, CfgTableToolParameters ----
\* rows is the content of the QTableWidget: a row is the sequence of the cells
\* that were set in it (QTableWidgetItem texts, QTextEdit texts or spin box
\* values); a row inserted while the table had no column has no cell.
RemoveAt(seq, i) == SubSeq(seq, 1, i - 1) \o SubSeq(seq, i + 1, Len(seq))
InsertAt(seq, i, x) == SubSeq(seq, 1, i - 1) \o <<x>> \o SubSeq(seq, i, Len(seq))
RangeOf(seq) == {seq[i] : i \in 1..Len(seq)}

\* QSpinBox() / CorrectedDoubleSpinBox() of a tool table cell, after
\* setMinimum(0), setMaximum(1000000000)
ToolCellMinimum == 0
ToolCellMaximum == 1000000000
ToolCellBox(double) ==
    QSpinBox_setMaximum(QSpinBox_setMinimum(QSpinBox(double), PyInt(ToolCellMinimum)),
                        PyInt(ToolCellMaximum))

\* "if string_list[0] == '': string_list[0] = 'name'"
ColumnKeys(string_list) ==
    IF Len(string_list) > 0 /\ string_list[1] = "" THEN [string_list EXCEPT ![1] = "name"]
    ELSE string_list

\* setColumnCount drops the cells of the columns removed
WithColumns(self, keys) ==
    [self EXCEPT
        !.keys = keys,
        !.columnCount = Len(keys),
        !.rows = [i \in 1..Len(self.rows) |->
                     SubSeq(self.rows[i], 1, Min2(Len(self.rows[i]), Len(keys)))]]

CfgTable_setSpec(self, spec) ==
    SetComment(WithColumns(self, ColumnKeys(spec.string_list)), spec)

\* "if isinstance(columns, (list, tuple)): self.setSpec(...)"
TableColumns(self, columns) ==
    IF columns.type = "list"
    THEN CfgTable_setSpec(self, Spec4(None, None, columns.v, <<>>))
    ELSE self

CfgTable_init(class, text, columns) ==
    TableColumns([class |-> class, label |-> text, keys |-> <<>>, columnCount |-> 0,
                  rows |-> <<>>, max_tool_number |-> 0, whatsThis |-> <<>>],
                 columns)

CfgTable(text, columns) == CfgTable_init("CfgTable", text, columns)
CfgTableCustomActions(text, columns) == CfgTable_init("CfgTableCustomActions", text, columns)
CfgTableToolParameters(text, columns) == CfgTable_init("CfgTableToolParameters", text, columns)

\* cell `column` (counted from 0) of row `line` (counted from 0) is set, the
\* cells of a row being set from column 0 on
PutCell(table, line, column, cell) ==
    [table EXCEPT !.rows[line + 1] =
        IF column + 1 <= Len(@) THEN [@ EXCEPT ![column + 1] = cell]
        ELSE Append(@, cell)]

\* "try: computed_value = ...(value) except ValueError: computed_value = ..."
OkOr(r, default) == IF r.ok THEN r.v ELSE default

\* the value the spin box of a tool table cell shows after setValue
ToolCell(double, computed_value) ==
    QSpinBox_setValue(ToolCellBox(double), computed_value).value

\* a variant that stores the last tool number instead of the highest
ToolCellSet_LastNumber(self, line, column, double, computed_value) ==
    PutCell(IF double THEN self
            ELSE [self EXCEPT !.max_tool_number = computed_value.v],
            line, column, ToolCell(double, computed_value))

\* CfgTableToolParameters.setCellValue: column 0 holds the tool number and
\* moves max_tool_number, the others hold floats
ToolCellSet(self, line, column, double, computed_value) ==
    PutCell(IF double THEN self
            ELSE [self EXCEPT !.max_tool_number = Max2(@, computed_value.v)],
            line, column, ToolCell(double, computed_value))

\* setCellValue(line, column, value) of the three classes
setCellValue(self, line, column, value) ==
    IF self.class = "CfgTableToolParameters"
    THEN ToolCellSet(self, line, column, column > 0,
                     IF column > 0 THEN OkOr(pyfloat(value), PyFloat(0, 0))
                     ELSE PyInt(OkOr(pyint(value), self.max_tool_number + 1)))
    ELSE PutCell(self, line, column, value.v)

RECURSIVE FillLine(_, _, _, _)
\* for i in range(columnCount): setCellValue(selected_row, i, ...)
FillLine(self, selected_row, line, i) ==
    IF i >= self.columnCount THEN self
    ELSE FillLine(setCellValue(self, selected_row, i,
                               IF line.type = "list" /\ Len(line.v) >= self.columnCount
                               THEN line.v[i + 1] ELSE PyStr(<<>>)),
                  selected_row, line, i + 1)

\* insertRow(selected_row) and the loop over the columns
AppendAt(self, line, selected_row) ==
    FillLine([self EXCEPT !.rows = InsertAt(@, selected_row + 1, <<>>)],
             selected_row, line, 0)

\* appendLine(line); currentRow (-1 when there is none) and hasSelection
\* (selectedIndexes() is not empty) are the selection state of the table
appendLine(self, line, currentRow, hasSelection) ==
    AppendAt(self, line,
             IF currentRow < 0 \/ ~hasSelection THEN Len(self.rows) ELSE currentRow)

\* "if selected_row >= 0: self.tablewidget.removeRow(selected_row)"
RemoveRow(self, selected_row) ==
    IF selected_row >= 0 THEN [self EXCEPT !.rows = RemoveAt(@, selected_row + 1)]
    ELSE self

removeLine(self, currentRow) ==
    RemoveRow(self, IF currentRow < 0 /\ Len(self.rows) > 0 THEN Len(self.rows) - 1
                    ELSE currentRow)

\* the characters of the model in code point order, for comparing strings
Alphabet == <<"\n", " ", "\"", "#", "'", "(", ")", "+", ",", "-", ".",
              "0", "1", "2", "3", "4", "5", "6", "7", "8", "9", "=",
              "A", "B", "C", "D", "E", "F", "G", "H", "I", "J", "K", "L", "M",
              "N", "O", "P", "Q", "R", "S", "T", "U", "V", "W", "X", "Y", "Z", "_",
              "a", "b", "c", "d", "e", "f", "g", "h", "i", "j", "k", "l", "m",
              "n", "o", "p", "q", "r", "s", "t", "u", "v", "w", "x", "y", "z">>
Ord(c) == CHOOSE i \in 1..Len(Alphabet) : Alphabet[i] = c

RECURSIVE StrLess(_, _)
\* a < b for two strings
StrLess(a, b) ==
    IF b = <<>> THEN FALSE
    ELSE IF a = <<>> THEN TRUE
    ELSE IF Head(a) = Head(b) THEN StrLess(Tail(a), Tail(b))
    ELSE Ord(Head(a)) < Ord(Head(b))

\* keys with equal floats are taken in string order
FloatKeyLess(fa, fb, a, b) == IF ~NumEq(fa, fb) THEN NumLess(fa, fb) ELSE StrLess(a, b)

KeyLess(a, b, numeric) ==
    IF numeric THEN FloatKeyLess(float(a).v, float(b).v, a, b) ELSE StrLess(a, b)

FirstKey(keys, numeric) == CHOOSE k \in keys : \A o \in keys \ {k} : KeyLess(k, o, numeric)

RECURSIVE SortedKeys(_, _)
RECURSIVE KeysFrom(_, _, _)
KeysFrom(keys, numeric, first) == <<first>> \o SortedKeys(keys \ {first}, numeric)

\* sorted(keys) or, with numeric, sorted(keys, key=float)
SortedKeys(keys, numeric) ==
    IF keys = {} THEN <<>> ELSE KeysFrom(keys, numeric, FirstKey(keys, numeric))

\* every column has a value in value[item]
Complete(self, entry) == \A i \in 2..Len(self.keys) : self.keys[i] \in DOMAIN entry.val

\* the line of value[item]: the key, then the value of each column
Line(self, item, entry) ==
    PyList([i \in 1..Len(self.keys) |->
               IF i = 1 THEN PyStr(item) ELSE entry.val[self.keys[i]]])

RECURSIVE SetValueLoop(_, _, _, _)
RECURSIVE SetValueStep(_, _, _, _)
SetValueStep(self, value, item_list, result) ==
    SetValueLoop(IF result
                 THEN appendLine(self, Line(self, Head(item_list),
                                            value.val[Head(item_list)]), -1, FALSE)
                 ELSE self,
                 value, Tail(item_list), result)

\* the "for item in item_list" loop of CfgTable.setValue
SetValueLoop(self, value, item_list, result) ==
    IF item_list = <<>> THEN [table |-> self, result |-> result]
    ELSE SetValueStep(self, value, item_list,
                      result /\ Complete(self, value.val[Head(item_list)]))

\* every key is the text of a number
AllFloats(keys) == \A k \in keys : float(k).ok

\* a variant that fills the table whether it has columns or not
CfgTable_setValueResult_AnyColumns(self, value) ==
    IF value.type = "dict"
    THEN SetValueLoop([self EXCEPT !.rows = <<>>], value,
                      SortedKeys(DOMAIN value.val, AllFloats(DOMAIN value.val)), TRUE)
    ELSE [table |-> self, result |-> FALSE]

\* CfgTable.setValue: [table, result]
CfgTable_setValueResult(self, value) ==
    IF value.type = "dict" /\ Len(self.keys) > 0
    THEN SetValueLoop([self EXCEPT !.rows = <<>>], value,
                      SortedKeys(DOMAIN value.val, AllFloats(DOMAIN value.val)), TRUE)
    ELSE [table |-> self, result |-> FALSE]

CfgTable_setValue(self, value) == CfgTable_setValueResult(self, value).table

\* d[k] = v on a dict's mapping
DictSet(f, k, v) == [x \in DOMAIN f \cup {k} |-> IF x = k THEN v ELSE f[x]]

\* the key of row i (counted from 1) as getValue and validateValue read it:
\* the text of the item, or str() of the tool number
RowKey(self, i) ==
    IF self.class = "CfgTableToolParameters" THEN str(self.rows[i][1].v)
    ELSE self.rows[i][1]

\* a cell as getValue returns it
CellValue(self, cell) ==
    IF self.class = "CfgTableToolParameters" THEN cell ELSE PyStr(cell)

\* the columns of a row, after the key, that hold a cell
RowColumns(self, row) == {j \in 2..self.columnCount : j <= Len(row)}

\* a column name used twice keeps the value of the last column
LastColumn(self, columns, k) ==
    CHOOSE j \in columns :
        self.keys[j] = k /\ \A o \in columns : self.keys[o] = k => o <= j

RowEntry(self, row, columns) ==
    [k \in {self.keys[j] : j \in columns} |->
        CellValue(self, row[LastColumn(self, columns, k)])]

RECURSIVE GetValueLoop(_, _, _)
\* the "for i in range(rowCount)" loop of the getValue methods of the tables
GetValueLoop(self, i, result_dict) ==
    IF i > Len(self.rows) THEN result_dict
    ELSE IF Len(self.rows[i]) = 0 \/ RowKey(self, i) = <<>>
    THEN GetValueLoop(self, i + 1, result_dict)
    ELSE GetValueLoop(self, i + 1,
                      DictSet(result_dict, RowKey(self, i),
                              PyDict(RowEntry(self, self.rows[i],
                                              RowColumns(self, self.rows[i])))))

CfgTable_getValue(self) == PyDict(GetValueLoop(self, 1, EmptyFn))

CfgTable_validateValue(self) == Result(TRUE, <<>>)

\* the rows whose cell in column 0 is missing or empty
EmptyKeyRows(self) ==
    {i \in 1..Len(self.rows) : Len(self.rows[i]) = 0 \/ RowKey(self, i) = <<>>}

RECURSIVE EmptyCellErrors(_, _)
EmptyCellErrors(self, i) ==
    IF i > Len(self.rows) THEN <<>>
    ELSE (IF i \in EmptyKeyRows(self)
          THEN <<[error |-> "The cell at column 0 must not be empty",
                  line |-> i - 1, table |-> self.label]>>
          ELSE <<>>) \o EmptyCellErrors(self, i + 1)

\* the rows that have a key
KeyedRows(self) == {i \in 1..Len(self.rows) : i \notin EmptyKeyRows(self)}

\* keys_list of validateValue: the keys of the rows that have one
KeysList(self) ==
    [keys |-> {RowKey(self, i) : i \in KeyedRows(self)},
     len |-> Cardinality(KeyedRows(self))]

DuplicateError(self, nb_duplicate_elements) ==
    IF nb_duplicate_elements # 0
    THEN <<[error |-> "Found duplicate elements",
            count |-> nb_duplicate_elements, table |-> self.label]>>
    ELSE <<>>

\* a variant that counts every row whose key another row has too
DuplicateErrors_CountingRows(self) ==
    DuplicateError(self,
        Cardinality({i \in KeyedRows(self) :
                        \E j \in KeyedRows(self) :
                            j # i /\ RowKey(self, j) = RowKey(self, i)}))

\* "nb_duplicate_elements = len(keys_list) - len(set(keys_list))"
DuplicateErrors(self) ==
    DuplicateError(self, KeysList(self).len - Cardinality(KeysList(self).keys))

\* (result_bool, result_string) from the messages found
ResultOf(errors) == Result(errors = <<>>, errors)

CfgTableCustomActions_validateValue(self) ==
    IF Len(self.rows) > 0 /\ self.columnCount > 0
    THEN ResultOf(EmptyCellErrors(self, 1) \o DuplicateErrors(self))
    ELSE Result(TRUE, <<>>)

\* "if self.tablewidget.rowCount() > 0 and self.tablewidget.columnCount() > 0"
Checked(self) == Len(self.rows) > 0 /\ self.columnCount > 0

\* contains_tool_1: set by the loop over the rows, which runs when Checked
ContainsTool1(self) ==
    Checked(self) /\ \E i \in 1..Len(self.rows) :
                         Len(self.rows[i]) > 0 /\ self.rows[i][1].v = 1

Tool1Error(self) ==
    IF ~ContainsTool1(self)
    THEN <<[error |-> "The table must always contains tool number 1",
            table |-> self.label]>>
    ELSE <<>>

\* a variant that looks for tool number 1 only in a table that has rows and
\* columns
CfgTableToolParameters_validateValue_CheckedOnly(self) ==
    ResultOf(IF Checked(self)
             THEN EmptyCellErrors(self, 1) \o DuplicateErrors(self) \o Tool1Error(self)
             ELSE <<>>)

CfgTableToolParameters_validateValue(self) ==
    ResultOf((IF Checked(self) THEN EmptyCellErrors(self, 1) \o DuplicateErrors(self)
              ELSE <<>>)
             \o Tool1Error(self))

\* ---- method calls on a widget: Python picks the method by the class ----
IsLineEdit(self) == self.class \in {"CfgLineEdit", "CfgListEdit"}
IsSpinBox(self) == self.class \in {"CfgSpinBox", "CfgDoubleSpinBox"}
IsTable(self) ==
    self.class \in {"CfgTable", "CfgTableCustomActions", "CfgTableToolParameters"}

setSpec(self, spec) ==
    IF self.class = "CfgCheckBox" THEN CfgCheckBox_setSpec(self, spec)
    ELSE IF IsSpinBox(self) THEN CfgSpinBox_setSpec(self, spec)
    ELSE IF IsLineEdit(self) THEN CfgLineEdit_setSpec(self, spec)
    ELSE IF self.class = "CfgComboBox" THEN CfgComboBox_setSpec(self, spec)
    ELSE CfgTable_setSpec(self, spec)

setValue(self, value) ==
    IF self.class = "CfgCheckBox" THEN CfgCheckBox_setValue(self, value)
    ELSE IF IsSpinBox(self) THEN CfgSpinBox_setValue(self, value)
    ELSE IF self.class = "CfgLineEdit" THEN CfgLineEdit_setValue(self, value)
    ELSE IF self.class = "CfgListEdit" THEN CfgListEdit_setValue(self, value)
    ELSE IF self.class = "CfgComboBox" THEN CfgComboBox_setValue(self, value)
    ELSE CfgTable_setValue(self, value)

getValue(self) ==
    IF self.class = "CfgCheckBox" THEN CfgCheckBox_getValue(self)
    ELSE IF IsSpinBox(self) THEN CfgSpinBox_getValue(self)
    ELSE IF self.class = "CfgLineEdit" THEN CfgLineEdit_getValue(self)
    ELSE IF self.class = "CfgListEdit" THEN CfgListEdit_getValue(self)
    ELSE IF self.class = "CfgComboBox" THEN CfgComboBox_getValue(self)
    ELSE CfgTable_getValue(self)

validateValue(self) ==
    IF self.class = "CfgCheckBox" THEN CfgCheckBox_validateValue(self)
    ELSE IF IsSpinBox(self) THEN CfgSpinBox_validateValue(self)
    ELSE IF IsLineEdit(self) THEN CfgLineEdit_validateValue(self)
    ELSE IF self.class = "CfgComboBox" THEN CfgComboBox_validateValue(self)
    ELSE IF self.class = "CfgTableCustomActions"
    THEN CfgTableCustomActions_validateValue(self)
    ELSE IF self.class = "CfgTableToolParameters"
    THEN CfgTableToolParameters_validateValue(self)
    ELSE CfgTable_validateValue(self)

\* ------------------------------------------------------------------------
\* ConfigWindow: the traversals of the window definition
\* ------------------------------------------------------------------------
\* a section of the configspec: its entries in order, and the comment lines of
\* each entry (ConfigObj's Section.comments)
Section(ks, f, comments) == [type |-> "dict", keys |-> ks, val |-> f, comments |-> comments]

\* section in mapping, for a mapping that may be None
Has(mapping, section) == mapping # None /\ section \in DOMAIN mapping.val

\* "if configspec is not None and section in configspec:
\*      item.setSpec(self.configspecParser(configspec[section], configspec.comments[section]))"
WithSpec(w, configspec, section) ==
    IF Has(configspec, section)
    THEN setSpec(w, configspecParser(configspec.val[section], configspec.comments[section]))
    ELSE w

RECURSIVE setValuesFromConfigLoop(_, _, _, _, _)
RECURSIVE setValuesFromConfigItem(_, _, _, _, _)
\* a variant that sets the value before it applies the spec
setValuesFromConfigItem_ValueFirst(ws, config, configspec, section, item) ==
    IF section = "__section_title__" THEN ws
    ELSE IF Has(config, section)
    THEN IF item.type = "dict"
         THEN setValuesFromConfigLoop(
                  ws, item, config.val[section],
                  IF Has(configspec, section) THEN configspec.val[section] ELSE None,
                  1)
         ELSE IF item.type = "QWidget"
         THEN [ws EXCEPT ![item.id] =
                   WithSpec(setValue(@, config.val[section]), configspec, section)]
         ELSE ws
    ELSE ws

\* the body of the loop, for one key of the window definition: the widgets
\* after it; a QLayout never comes this far, createWidgetSubSection has
\* raised on it in the constructor
setValuesFromConfigItem(ws, config, configspec, section, item) ==
    IF section = "__section_title__" THEN ws
    ELSE IF Has(config, section)
    THEN IF item.type = "dict"
         THEN setValuesFromConfigLoop(
                  ws, item, config.val[section],
                  IF Has(configspec, section) THEN configspec.val[section] ELSE None,
                  1)
         ELSE IF item.type = "QWidget"
         THEN [ws EXCEPT ![item.id] =
                   setValue(WithSpec(@, configspec, section), config.val[section])]
         ELSE ws
    ELSE ws

\* setValuesFromConfig from the i-th key of window_def on: the widgets after it
setValuesFromConfigLoop(ws, window_def, config, configspec, i) ==
    IF i > Len(window_def.keys) THEN ws
    ELSE setValuesFromConfigLoop(
             setValuesFromConfigItem(ws, config, configspec, window_def.keys[i],
                                     window_def.val[window_def.keys[i]]),
             window_def, config, configspec, i + 1)

setValuesFromConfig(ws, window_def, config, configspec) ==
    setValuesFromConfigLoop(ws, window_def, config, configspec, 1)

RECURSIVE validateConfigurationLoop_LastWins(_, _, _, _, _)
RECURSIVE validateConfigurationItem_LastWins(_, _, _, _, _)
validateConfigurationItem_LastWins(ws, result_string, result_bool, section, item) ==
    IF section = "__section_title__" THEN Result(result_bool, result_string)
    ELSE IF item.type = "dict"
    THEN validateConfigurationLoop_LastWins(ws, item, result_string, result_bool, 1)
    ELSE IF item.type = "QWidget"
    THEN Result(validateValue(ws[item.id]).ok,
                result_string \o validateValue(ws[item.id]).errors)
    ELSE Result(result_bool, result_string)

RECURSIVE validateConfigurationNext_LastWins(_, _, _, _)
validateConfigurationNext_LastWins(ws, window_def, r, i) ==
    validateConfigurationLoop_LastWins(ws, window_def, r.errors, r.ok, i + 1)

\* a variant whose result_bool is the result of the last widget validated
validateConfigurationLoop_LastWins(ws, window_def, result_string, result_bool, i) ==
    IF i > Len(window_def.keys) THEN Result(result_bool, result_string)
    ELSE validateConfigurationNext_LastWins(
             ws, window_def,
             validateConfigurationItem_LastWins(ws, result_string, result_bool,
                                                window_def.keys[i],
                                                window_def.val[window_def.keys[i]]),
             i)

\* a variant that puts the errors of the widget in front of the others
Joined_InFront(result, result_string, result_bool) ==
    Result(IF result.ok = FALSE THEN FALSE ELSE result_bool,
           result.errors \o result_string)

\* "(result_bool, result_string) = item.validateValue()" joined to what the
\* loop has so far: one failure makes the whole validation fail
Joined(result, result_string, result_bool) ==
    Result(IF result.ok = FALSE THEN FALSE ELSE result_bool,
           result_string \o result.errors)

RECURSIVE validateConfigurationLoop(_, _, _, _, _)
RECURSIVE validateConfigurationItem(_, _, _, _, _)
\* the body of the loop, for one key of the window definition
validateConfigurationItem(ws, result_string, result_bool, section, item) ==
    IF section = "__section_title__" THEN Result(result_bool, result_string)
    ELSE IF item.type = "dict"
    THEN validateConfigurationLoop(ws, item, result_string, result_bool, 1)
    ELSE IF item.type = "QWidget"
    THEN Joined(validateValue(ws[item.id]), result_string, result_bool)
    ELSE Result(result_bool, result_string)

RECURSIVE validateConfigurationNext(_, _, _, _)
validateConfigurationNext(ws, window_def, r, i) ==
    validateConfigurationLoop(ws, window_def, r.errors, r.ok, i + 1)

\* validateConfiguration from the i-th key of window_def on
validateConfigurationLoop(ws, window_def, result_string, result_bool, i) ==
    IF i > Len(window_def.keys) THEN Result(result_bool, result_string)
    ELSE validateConfigurationNext(
             ws, window_def,
             validateConfigurationItem(ws, result_string, result_bool,
                                       window_def.keys[i],
                                       window_def.val[window_def.keys[i]]),
             i)

validateConfiguration(ws, window_def) ==
    validateConfigurationLoop(ws, window_def, <<>>, TRUE, 1)

\* a list of the configuration extended with the widget's list
Extended(old, new) ==
    IF old.type = "list" /\ new.type = "list" THEN PyList(old.v \o new.v) ELSE new

RECURSIVE updateConfigurationLoop_Extending(_, _, _, _)
RECURSIVE updateConfigurationItem_Extending(_, _, _, _)
updateConfigurationItem_Extending(ws, config, section, item) ==
    IF section = "__section_title__" THEN config
    ELSE IF Has(config, section)
    THEN IF item.type = "dict"
         THEN [config EXCEPT !.val[section] =
                   updateConfigurationLoop_Extending(ws, item, @, 1)]
         ELSE IF item.type = "QWidget"
         THEN [config EXCEPT !.val[section] = Extended(@, getValue(ws[item.id]))]
         ELSE config
    ELSE config

\* a variant that extends a list of the configuration with the widget's list
\* instead of replacing it
updateConfigurationLoop_Extending(ws, window_def, config, i) ==
    IF i > Len(window_def.keys) THEN config
    ELSE updateConfigurationLoop_Extending(
             ws, window_def,
             updateConfigurationItem_Extending(ws, config, window_def.keys[i],
                                               window_def.val[window_def.keys[i]]),
             i + 1)

RECURSIVE updateConfigurationLoop(_, _, _, _)
RECURSIVE updateConfigurationItem(_, _, _, _)
\* a variant that also writes the value of a widget whose key the
\* configuration does not have
updateConfigurationItem_Adding(ws, config, section, item) ==
    IF section = "__section_title__" THEN config
    ELSE IF item.type = "dict"
    THEN IF Has(config, section)
         THEN [config EXCEPT !.val[section] = updateConfigurationLoop(ws, item, @, 1)]
         ELSE config
    ELSE IF item.type = "QWidget" /\ config # None
    THEN [config EXCEPT !.val = DictSet(@, section, getValue(ws[item.id]))]
    ELSE config

\* the body of the loop, for one key of the window definition: config after it
updateConfigurationItem(ws, config, section, item) ==
    IF section = "__section_title__" THEN config
    ELSE IF Has(config, section)
    THEN IF item.type = "dict"
         THEN [config EXCEPT !.val[section] = updateConfigurationLoop(ws, item, @, 1)]
         ELSE IF item.type = "QWidget"
         THEN [config EXCEPT !.val[section] = getValue(ws[item.id])]
         ELSE config
    ELSE config

\* updateConfiguration from the i-th key of window_def on: config after it
updateConfigurationLoop(ws, window_def, config, i) ==
    IF i > Len(window_def.keys) THEN config
    ELSE updateConfigurationLoop(
             ws, window_def,
             updateConfigurationItem(ws, config, window_def.keys[i],
                                     window_def.val[window_def.keys[i]]),
             i + 1)

updateConfiguration(ws, window_def, config) ==
    updateConfigurationLoop(ws, window_def, config, 1)

\* ------------------------------------------------------------------------
\* ConfigWindow.createWidgetFromDefinitionDict: the titles of the sections
\* ------------------------------------------------------------------------
\* the characters of the names the window definitions use
Chars(name) ==
    CASE
       name = "__section_title__" -> <<"_", "_", "s", "e", "c", "t", "i", "o", "n", "_", "t", "i", "t", "l", "e", "_", "_">>
    [] name = "General" -> <<"G", "e", "n", "e", "r", "a", "l">>
    [] name = "Depth" -> <<"D", "e", "p", "t", "h">>
    [] name = "write_to_stdout" -> <<"w", "r", "i", "t", "e", "_", "t", "o", "_", "s", "t", "d", "o", "u", "t">>
    [] name = "passes" -> <<"p", "a", "s", "s", "e", "s">>
    [] name = "feed" -> <<"f", "e", "e", "d">>
    [] name = "Paths" -> <<"P", "a", "t", "h", "s">>
    [] name = "name" -> <<"n", "a", "m", "e">>
    [] name = "exts" -> <<"e", "x", "t", "s">>
    [] name = "Units" -> <<"U", "n", "i", "t", "s">>
    [] name = "unit" -> <<"u", "n", "i", "t">>
    [] name = "Tool_Parameters" -> <<"T", "o", "o", "l", "_", "P", "a", "r", "a", "m", "e", "t", "e", "r", "s">>
    [] name = "Notes" -> <<"N", "o", "t", "e", "s">>
    [] name = "note" -> <<"n", "o", "t", "e">>
    [] name = "logo" -> <<"l", "o", "g", "o">>

FirstName(names) ==
    CHOOSE n \in names : \A o \in names \ {n} : StrLess(Chars(n), Chars(o))

RECURSIVE SortedNames(_)
RECURSIVE NamesFrom(_, _)
NamesFrom(names, first) == <<first>> \o SortedNames(names \ {first})

\* sorted(names)
SortedNames(names) == IF names = {} THEN <<>> ELSE NamesFrom(names, FirstName(names))

\* d[k] = v on an ordered dict: a new key goes last
OrderedSet(d, k, v) ==
    [d EXCEPT !.keys = IF k \in DOMAIN d.val THEN @ ELSE Append(@, k),
              !.val = DictSet(@, k, v)]

\* a variant that takes the name of the section whether it has a title or not
SectionTitle_NameOnly(item, section) == PyStr(replace(Chars(section), <<"_">>, <<" ">>))

\* the title of a section: its own __section_title__, or its name with the
\* underscores replaced by spaces
SectionTitle(item, section) ==
    IF item.type = "dict" /\ "__section_title__" \in DOMAIN item.val
    THEN item.val["__section_title__"]
    ELSE PyStr(replace(Chars(section), <<"_">>, <<" ">>))

RECURSIVE TitlesLoop(_, _)
\* the part of the "for section in sorted(definition)" loop that fills
\* definition['__section_title__']
TitlesLoop(definition, sections) ==
    IF sections = <<>> THEN definition
    ELSE TitlesLoop(
             IF Head(sections) = "__section_title__"
                \/ Head(sections) \in DOMAIN definition.val["__section_title__"].val
             THEN definition
             ELSE [definition EXCEPT !.val["__section_title__"] =
                       OrderedSet(@, Head(sections),
                                  SectionTitle(definition.val[Head(sections)],
                                               Head(sections)))],
             Tail(sections))

WithTitles(definition) == TitlesLoop(definition, SortedNames(DOMAIN definition.val))

RECURSIVE createWidgetSubSection(_)
\* the exception that leaves createWidgetSubSection, "none" when it returns:
\* a QWidget is added to the layout of the tab, an object that is neither a
\* QWidget nor a QLayout is logged, and a QLayout reaches
\* vertical_box.addWidget, which takes a QWidget only and raises TypeError
createWidgetSubSection(subdefinition) ==
    IF subdefinition.type = "dict"
    THEN IF \E subsection \in DOMAIN subdefinition.val \ {"__section_title__"} :
                createWidgetSubSection(subdefinition.val[subsection]) # "none"
         THEN "TypeError"
         ELSE "none"
    ELSE IF subdefinition.type = "QLayout" THEN "TypeError"
    ELSE "none"

\* the exception that leaves createWidgetFromDefinitionDict, "none" when it
\* returns the tab widget
TabsRaised(definition) ==
    IF \E section \in DOMAIN definition.val \ {"__section_title__"} :
           createWidgetSubSection(definition.val[section]) # "none"
    THEN "TypeError"
    ELSE "none"

\* the window definition after createWidgetFromDefinitionDict
createWidgetFromDefinitionDict(cfg_window_def) ==
    WithTitles(IF "__section_title__" \notin DOMAIN cfg_window_def.val
               THEN OrderedSet(cfg_window_def, "__section_title__",
                               OrderedDict(<<>>, EmptyFn))
               ELSE cfg_window_def)

\* what a QVBoxLayout holds: a widget of the definition, the QFrame that
\* closes a section, or a stretch
Item(id) == [kind |-> "widget", id |-> id]
Separator == [kind |-> "QFrame"]
Stretch == [kind |-> "stretch"]

RECURSIVE SubSectionItems(_)
RECURSIVE SubSectionLoop(_, _)
\* "for subsection in sorted(subdefinition)": what the recursive calls add to
\* the layout of the tab
SubSectionLoop(subdefinition, subsections) ==
    IF subsections = <<>> THEN <<>>
    ELSE IF Head(subsections) = "__section_title__"
    THEN SubSectionLoop(subdefinition, Tail(subsections))
    ELSE SubSectionItems(subdefinition.val[Head(subsections)])
         \o SubSectionLoop(subdefinition, Tail(subsections))

\* a variant that takes the keys in the order of the dict
SubSectionItems_Unsorted(subdefinition) ==
    IF subdefinition.type = "dict"
    THEN SubSectionLoop(subdefinition, subdefinition.keys)
    ELSE IF subdefinition.type = "QWidget" THEN <<Item(subdefinition.id)>>
    ELSE <<>>

\* what createWidgetSubSection adds to the layout of the tab, when no
\* exception leaves it
SubSectionItems(subdefinition) ==
    IF subdefinition.type = "dict"
    THEN SubSectionLoop(subdefinition, SortedNames(DOMAIN subdefinition.val))
    ELSE IF subdefinition.type = "QWidget" THEN <<Item(subdefinition.id)>>
    ELSE <<>>

\* the index of the tab with the text, 0 when there is none
TabIndex(tabs, text) ==
    IF \E i \in 1..Len(tabs) : tabs[i].text = text
    THEN CHOOSE i \in 1..Len(tabs) :
             tabs[i].text = text /\ \A j \in 1..(i - 1) : tabs[j].text # text
    ELSE 0

\* the tab of the title, made if there is none yet, with the items added
AddToTab(tabs, text, items) ==
    IF TabIndex(tabs, text) = 0 THEN Append(tabs, [text |-> text, layout |-> items])
    ELSE [tabs EXCEPT ![TabIndex(tabs, text)].layout = @ \o items]

RECURSIVE TabsLoop(_, _, _)
\* the part of the "for section in sorted(definition)" loop that fills the
\* tabs: the widgets of the section, a separator and a stretch
TabsLoop(definition, sections, tabs) ==
    IF sections = <<>> THEN tabs
    ELSE IF Head(sections) = "__section_title__"
    THEN TabsLoop(definition, Tail(sections), tabs)
    ELSE TabsLoop(definition, Tail(sections),
                  AddToTab(tabs,
                           definition.val["__section_title__"].val[Head(sections)],
                           SubSectionItems(definition.val[Head(sections)])
                           \o <<Separator, Stretch>>))

\* "for i in range(tab_widget.count()): ... layout().addStretch()"
Stretched(tabs) == [i \in 1..Len(tabs) |-> [tabs[i] EXCEPT !.layout = Append(@, Stretch)]]

\* the QTabWidget createWidgetFromDefinitionDict returns, for the window
\* definition as the method leaves it
QTabWidget(definition) ==
    Stretched(TabsLoop(definition, SortedNames(DOMAIN definition.val), <<>>))

\* ------------------------------------------------------------------------
\* The forms the model opens: what the caller passes to ConfigWindow(
\* definition_dict, config, configspec), with the widgets it has constructed
\* ------------------------------------------------------------------------
\* a dict literal {k1: v1, k2: v2, ...}, from its <<key, value>> pairs
Keys(pairs) == [i \in 1..Len(pairs) |-> pairs[i][1]]
Values(pairs) ==
    [k \in RangeOf(Keys(pairs)) |-> pairs[CHOOSE i \in 1..Len(pairs) : pairs[i][1] = k][2]]
Definition(pairs) == OrderedDict(Keys(pairs), Values(pairs))
Config(pairs) == PyDict(Values(pairs))
\* a configspec section, from its <<key, spec, comment lines>> triples
ConfigSpec(triples) ==
    Section(Keys(triples), Values(triples),
            [k \in RangeOf(Keys(triples)) |->
                triples[CHOOSE i \in 1..Len(triples) : triples[i][1] = k][3]])

\* [General] write_to_stdout, [[Depth]] passes, feed
GeneralDefinition ==
    Definition(<<
        <<"General", Definition(<<
            <<"__section_title__", PyStr(<<"S", "o", "f", "t", "w", "a", "r", "e", " ", "c", "o", "n", "f", "i", "g">>)>>,
            <<"write_to_stdout", QWidget("c1")>>,
            <<"Depth", Definition(<<
                <<"passes", QWidget("s1")>>,
                <<"feed", QWidget("d1")>> >>)>> >>)>> >>)

GeneralWidgets ==
    [c1 |-> CfgCheckBox("Export the G-Code to stdout", FALSE),
     s1 |-> CfgSpinBox("Number of passes", None, PyInt(5)),
     d1 |-> CfgDoubleSpinBox("Feed rate", PyFloat(1, 0), None, None)]

GeneralConfig(write_to_stdout, passes) ==
    Config(<<
        <<"General", Config(<<
            <<"write_to_stdout", PyInt(write_to_stdout)>>,
            <<"Depth", Config(<<
                <<"passes", PyInt(passes)>>,
                <<"feed", PyFloat(20, 500)>> >>)>> >>)>> >>)

GeneralConfigSpec ==
    ConfigSpec(<<
        <<"General", ConfigSpec(<<
            <<"write_to_stdout", PyStr(<<"i", "n", "t", "e", "g", "e", "r", "(", "m", "i", "n", "=", "0", ",", " ", "m", "a", "x", "=", "2", ")">>),
              << <<"#", " ", "s", "t", "d", "o", "u", "t">> >> >>,
            <<"Depth", ConfigSpec(<<
                <<"passes", PyStr(<<"i", "n", "t", "e", "g", "e", "r", "(", "m", "i", "n", "=", "1", ",", "m", "a", "x", "=", "9", ")">>), <<>> >>,
                <<"feed", PyStr(<<"f", "l", "o", "a", "t", "(", "m", "i", "n", " ", "=", " ", "0", ",", " ", "m", "a", "x", " ", "=", " ", "3", "6", "0", ".", "5", ")">>),
                  << <<"#", " ", "f", "e", "e", "d">>, <<" ", "#", " ", "m", "m", "/", "m", "i", "n">> >> >> >>), <<>> >> >>),
          <<>> >> >>)

\* [Paths] name, exts, [Units] unit; the Notes section is not in the config
\* file and the logo is not a widget
TextDefinition ==
    Definition(<<
        <<"Paths", Definition(<<
            <<"name", QWidget("l1")>>,
            <<"exts", QWidget("e1")>>,
            <<"logo", PyObject>> >>)>>,
        <<"Units", Definition(<<
            <<"unit", QWidget("u1")>> >>)>>,
        <<"Notes", Definition(<<
            <<"note", QWidget("n1")>> >>)>> >>)

TextWidgets ==
    [l1 |-> CfgLineEdit("File name", None, None),
     e1 |-> CfgListEdit("Extensions", <<",">>, None),
     u1 |-> CfgComboBox("Unit", None, None),
     n1 |-> CfgLineEdit("Note", PyInt(1), None)]

TextConfig(exts) ==
    Config(<<
        <<"Paths", Config(<<
            <<"name", PyStr(<<"a">>)>>,
            <<"exts", PyList(exts)>> >>)>>,
        <<"Units", Config(<<
            <<"unit", PyStr(<<"i", "n">>)>> >>)>> >>)

TextConfigSpec ==
    ConfigSpec(<<
        <<"Paths", ConfigSpec(<<
            <<"name", PyStr(<<"s", "t", "r", "i", "n", "g", "(", "m", "i", "n", "=", "1", ",", " ", "m", "a", "x", "=", "3", ")">>), <<>> >>,
            <<"exts", PyStr(<<"l", "i", "s", "t", "(", "d", "e", "f", "a", "u", "l", "t", "=", "l", "i", "s", "t", "(", ")", ")">>), <<>> >> >>), <<>> >>,
        <<"Units", ConfigSpec(<<
            <<"unit", PyStr(<<"o", "p", "t", "i", "o", "n", "(", "'", "m", "m", "'", ",", " ", "'", "i", "n", "'", ",", " ", "d", "e", "f", "a", "u", "l", "t", " ", "=", " ", "'", "m", "m", "'", ")">>),
              <<>> >> >>), <<>> >> >>)

\* [Tool_Parameters] [[1]] diameter ...
ToolsDefinition == Definition(<< <<"Tool_Parameters", QWidget("t1")>> >>)

ToolsWidgets(columns) == [t1 |-> CfgTableToolParameters("Tools table", columns)]

Tool(diameter) == Config(<< <<"diameter", diameter>> >>)

ToolsConfig(tools) == Config(<< <<"Tool_Parameters", Config(tools)>> >>)

ToolsConfigSpec ==
    ConfigSpec(<<
        <<"Tool_Parameters", ConfigSpec(<<
            <<"__many__", ConfigSpec(<<
                <<"diameter", PyStr(<<"f", "l", "o", "a", "t", "(", "d", "e", "f", "a", "u", "l", "t", " ", "=", " ", "3", ".", "0", ")">>), <<>> >> >>),
              <<>> >> >>), <<>> >> >>)

\* [General] write_to_stdout: the config file has neither the Notes section
\* nor the feed entry, and the logo, which it has, is not a widget
PartialDefinition ==
    Definition(<<
        <<"Notes", Definition(<<
            <<"note", QWidget("n1")>> >>)>>,
        <<"General", Definition(<<
            <<"feed", QWidget("c2")>>,
            <<"logo", PyObject>>,
            <<"write_to_stdout", QWidget("c1")>> >>)>> >>)

PartialWidgets ==
    [n1 |-> CfgCheckBox("Note", FALSE),
     c2 |-> CfgCheckBox("Feed rate", FALSE),
     c1 |-> CfgCheckBox("Export the G-Code to stdout", TRUE)]

PartialConfig ==
    Config(<<
        <<"General", Config(<<
            <<"logo", PyInt(7)>>,
            <<"write_to_stdout", PyInt(2)>> >>)>> >>)

PartialConfigSpec ==
    ConfigSpec(<<
        <<"General", ConfigSpec(<<
            <<"write_to_stdout", PyStr(<<"i", "n", "t", "e", "g", "e", "r", "(", "m", "i", "n", "=", "0", ",", " ", "m", "a", "x", "=", "2", ")">>),
              << <<"#", " ", "s", "t", "d", "o", "u", "t">> >> >> >>),
          <<>> >> >>)

\* the same section with a layout in the place of the logo
LayoutDefinition ==
    Definition(<<
        <<"General", Definition(<<
            <<"logo", QLayout("g1")>>,
            <<"write_to_stdout", QWidget("c1")>> >>)>> >>)

LayoutWidgets == [c1 |-> CfgCheckBox("Export the G-Code to stdout", TRUE)]

\* a definition with a title map of its own: [Units] goes to the tab of
\* [Paths]; the keys are not in sorted order; the config file has no [Units]
TitledDefinition ==
    Definition(<<
        <<"Units", Definition(<<
            <<"unit", QWidget("l3")>>,
            <<"__section_title__", PyStr(<<"U">>)>>,
            <<"name", QWidget("l2")>> >>)>>,
        <<"__section_title__", Definition(<<
            <<"Units", PyStr(<<"P", "a", "t", "h", "s">>)>>,
            <<"logo", PyStr(<<"L">>)>> >>)>>,
        <<"Tool_Parameters", Definition(<<
            <<"feed", QWidget("c1")>> >>)>>,
        <<"Paths", Definition(<<
            <<"name", QWidget("l1")>> >>)>>,
        <<"General", Definition(<<
            <<"__section_title__", PyStr(<<"S", "o", "f", "t">>)>>,
            <<"note", QWidget("n1")>> >>)>> >>)

TitledWidgets ==
    [l1 |-> CfgLineEdit("File name", PyInt(1), None),
     l2 |-> CfgLineEdit("Unit name", PyInt(1), None),
     l3 |-> CfgLineEdit("Unit", None, None),
     c1 |-> CfgCheckBox("Feed rate", FALSE),
     n1 |-> CfgCheckBox("Note", FALSE)]

TitledConfig ==
    Config(<<
        <<"__section_title__", Config(<<
            <<"Units", PyStr(<<"x">>)>> >>)>>,
        <<"Paths", Config(<<
            <<"name", PyStr(<<"a">>)>>,
            <<"exts", PyStr(<<"b">>)>> >>)>>,
        <<"General", Config(<<
            <<"__section_title__", PyStr(<<"y">>)>>,
            <<"note", PyInt(1)>> >>)>> >>)

Form(definition, widgets, config, spec) ==
    [definition |-> definition, widgets |-> widgets, config |-> config,
     configspec |-> spec]

Forms ==
    <<Form(GeneralDefinition, GeneralWidgets, GeneralConfig(0, 3), GeneralConfigSpec),
      Form(GeneralDefinition, GeneralWidgets, GeneralConfig(2, 4), None),
      Form(TextDefinition, TextWidgets, TextConfig(<<<<"a">>, <<"b">>>>), TextConfigSpec),
      Form(TextDefinition, TextWidgets, TextConfig(<<>>), TextConfigSpec),
      Form(TextDefinition, TextWidgets, None, None),
      Form(ToolsDefinition, ToolsWidgets(None),
           ToolsConfig(<< <<<<"1">>, Tool(PyFloat(3, 0))>> >>),
           ToolsConfigSpec),
      Form(ToolsDefinition, ToolsWidgets(None),
           ToolsConfig(<< <<<<"1">>, Tool(PyFloat(3, 0))>>,
                          <<<<"0", "1">>, Tool(PyFloat(3, 0))>> >>),
           ToolsConfigSpec),
      Form(ToolsDefinition, ToolsWidgets(PyList(<<"">>)),
           ToolsConfig(<<>>), None),
      Form(ToolsDefinition, ToolsWidgets(None), ToolsConfig(<<>>), None),
      Form(ToolsDefinition, ToolsWidgets(None),
           ToolsConfig(<< <<<<"1">>, Tool(PyFloat(3, 0))>> >>), None),
      Form(PartialDefinition, PartialWidgets, PartialConfig, PartialConfigSpec),
      Form(LayoutDefinition, LayoutWidgets, PartialConfig, None),
      Form(TitledDefinition, TitledWidgets, TitledConfig, None),
      Form(ToolsDefinition, ToolsWidgets(PyList(<<"">>)), PartialConfig, None)>>

\* ------------------------------------------------------------------------
\* The dialog
\* ------------------------------------------------------------------------
VARIABLES
    cfg_window_def,  \* self.cfg_window_def
    var_dict,        \* self.var_dict: the caller's ConfigObj, or None
    configspec,      \* self.configspec, or None
    widgets,         \* the widgets the window definition refers to, by id
    visible,         \* the dialog is shown
    result,          \* QDialog.result()
    handler,         \* the last method that ran
    calls,           \* the calls that method made, in order
    finished,        \* the finished(int) signals it emitted, each with the
                     \* var_dict a connected slot reads
    messageBox,      \* the text of the message box it showed, or <<>>
    afterApply,      \* the method ran right after an applyChanges that
                     \* validated: no edit and no other call in between
    scanned,         \* a call of configspecParser on its own: what it was
                     \* given and what it returned
    raised,          \* the exception that left the constructor, "none" when
                     \* it returned
    definition_dict, \* the window definition as the caller passed it, before
                     \* the constructor wrote to it
    tab_widget,      \* the QTabWidget the constructor has built
    called           \* a method called on a widget on its own: its name,
                     \* its arguments and what it returned

vars == <<cfg_window_def, var_dict, configspec, widgets, visible, result,
          handler, calls, finished, messageBox, afterApply, scanned, raised,
          definition_dict, tab_widget, called>>

\* QDialog.Rejected, QDialog.Accepted and ConfigWindow.Applied
Rejected == 0
Accepted == 1
Applied == Accepted + Rejected + 1

\* the dialog while a method runs on it
Self ==
    [widgets |-> widgets, var_dict |-> var_dict, visible |-> visible,
     result |-> result, calls |-> <<>>, finished |-> <<>>, messageBox |-> <<>>]

Called(self, name) == [self EXCEPT !.calls = Append(@, name)]

\* self.finished.emit(r)
Emit(self, r) ==
    [self EXCEPT !.finished = Append(@, [result |-> r, var_dict |-> self.var_dict])]

\* QDialog.done(r), which QDialog.accept() and QDialog.reject() call: hides
\* the dialog, sets the result code and emits finished(r)
QDialog_done(self, r) ==
    Emit([Called(self, "QDialog.done") EXCEPT !.visible = FALSE, !.result = r], r)

displayMessageBox(self, errors_list) ==
    [Called(self, "displayMessageBox") EXCEPT
        !.messageBox = <<[error |-> "Please correct the following error(s)"]>>
                       \o errors_list]

Updated(self) ==
    [Called(self, "updateConfiguration") EXCEPT
        !.var_dict = updateConfiguration(self.widgets, cfg_window_def, @)]

Populated(self) ==
    [Called(self, "setValuesFromConfig") EXCEPT
        !.widgets = setValuesFromConfig(@, cfg_window_def, self.var_dict, configspec)]

ConfigWindow_accept_ClosesFirstChecked(self, v) ==
    IF v.ok THEN Updated(QDialog_done(self, Accepted))
    ELSE displayMessageBox(self, v.errors)

\* a variant of accept that closes the dialog before it updates the
\* configuration
ConfigWindow_accept_ClosesFirst(self) ==
    ConfigWindow_accept_ClosesFirstChecked(
        Called(self, "validateConfiguration"),
        validateConfiguration(self.widgets, cfg_window_def))

ConfigWindow_applyChanges_UncheckedDone(self, v) ==
    IF v.ok THEN Emit([Called(self, "setResult") EXCEPT !.result = Applied], Applied)
    ELSE displayMessageBox(self, v.errors)

\* a variant of applyChanges that updates the configuration whatever the
\* validation says
ConfigWindow_applyChanges_Unchecked(self) ==
    ConfigWindow_applyChanges_UncheckedDone(
        Updated(Called(self, "validateConfiguration")),
        validateConfiguration(self.widgets, cfg_window_def))

ConfigWindow_applyChanges_ClosingChecked(self, v) ==
    IF v.ok THEN QDialog_done(Updated(self), Applied)
    ELSE displayMessageBox(self, v.errors)

\* a variant of applyChanges that closes the dialog as accept does
ConfigWindow_applyChanges_Closing(self) ==
    ConfigWindow_applyChanges_ClosingChecked(
        Called(self, "validateConfiguration"),
        validateConfiguration(self.widgets, cfg_window_def))

\* a variant of reject that writes the widgets to the configuration before
\* it reloads them
ConfigWindow_reject_Updating(self) == QDialog_done(Populated(Updated(self)), Rejected)

\* a variant of accept that commits and closes whatever the validation says
ConfigWindow_acceptChecked_Unchecked(self, v) == QDialog_done(Updated(self), Accepted)

\* accept once validateConfiguration has returned v = (ok, errors_list)
ConfigWindow_acceptChecked(self, v) ==
    IF v.ok THEN QDialog_done(Updated(self), Accepted)
    ELSE displayMessageBox(self, v.errors)

\* ConfigWindow.accept (the OK button)
ConfigWindow_accept(self) ==
    ConfigWindow_acceptChecked(Called(self, "validateConfiguration"),
                               validateConfiguration(self.widgets, cfg_window_def))

\* a variant of applyChanges that emits finished before it updates the
\* configuration
ConfigWindow_applyChangesChecked_EmitsFirst(self, v) ==
    IF v.ok THEN Updated(Emit([Called(self, "setResult") EXCEPT !.result = Applied],
                              Applied))
    ELSE displayMessageBox(self, v.errors)

\* applyChanges once validateConfiguration has returned v = (ok, errors_list)
ConfigWindow_applyChangesChecked(self, v) ==
    IF v.ok THEN Emit([Called(Updated(self), "setResult") EXCEPT !.result = Applied],
                      Applied)
    ELSE displayMessageBox(self, v.errors)

\* ConfigWindow.applyChanges (the Apply button)
ConfigWindow_applyChanges(self) ==
    ConfigWindow_applyChangesChecked(Called(self, "validateConfiguration"),
                                     validateConfiguration(self.widgets, cfg_window_def))

\* ConfigWindow.reject (the Cancel button)
ConfigWindow_reject(self) == QDialog_done(Populated(self), Rejected)

\* the state after a method has run
Ran(name, self, applied) ==
    /\ widgets' = self.widgets
    /\ var_dict' = self.var_dict
    /\ visible' = self.visible
    /\ result' = self.result
    /\ calls' = self.calls
    /\ finished' = self.finished
    /\ messageBox' = self.messageBox
    /\ handler' = name
    /\ afterApply' = applied
    /\ UNCHANGED <<cfg_window_def, configspec, scanned, raised, definition_dict,
                   tab_widget, called>>

\* the last method was an applyChanges that validated
Validated == validateConfiguration(widgets, cfg_window_def).ok
JustApplied == handler = "applyChanges" /\ Validated

\* ConfigWindow.__init__: the layout is built, the widgets are populated; the
\* caller then shows the dialog
Init ==
    \E form \in RangeOf(Forms) :
        /\ cfg_window_def = createWidgetFromDefinitionDict(form.definition)
        /\ var_dict = form.config
        /\ configspec = form.configspec
        /\ definition_dict = form.definition
        /\ raised = TabsRaised(form.definition)
        /\ tab_widget = IF raised = "none" THEN QTabWidget(cfg_window_def) ELSE <<>>
        /\ widgets = IF raised = "none"
                     THEN setValuesFromConfig(form.widgets, cfg_window_def,
                                              var_dict, configspec)
                     ELSE form.widgets
        /\ visible = (raised = "none")
        /\ result = Rejected
        /\ handler = "__init__"
        /\ calls = IF raised = "none"
                   THEN <<"createWidgetFromDefinitionDict", "setValuesFromConfig">>
                   ELSE <<"createWidgetFromDefinitionDict">>
        /\ finished = <<>>
        /\ messageBox = <<>>
        /\ afterApply = FALSE
        /\ scanned = None
        /\ called = None

accept == visible /\ Ran("accept", ConfigWindow_accept(Self), JustApplied)

applyChanges ==
    visible /\ Ran("applyChanges", ConfigWindow_applyChanges(Self), JustApplied)

reject == visible /\ Ran("reject", ConfigWindow_reject(Self), JustApplied)

\* the caller shows the dialog again: show(), or exec_() which also resets
\* the result code
show ==
    /\ ~visible /\ raised = "none"
    /\ \E byExec \in BOOLEAN :
           Ran("show", [Self EXCEPT !.visible = TRUE,
                                    !.result = IF byExec THEN Rejected ELSE @],
               FALSE)

\* ------------------------------------------------------------------------
\* The user edits a widget of the shown dialog
\* ------------------------------------------------------------------------
\* what the user types into the text fields
TextInputs == {<<>>, <<"a">>, <<"a", ",", "b">>}
\* what the user sets the spin boxes to
SpinInputs == {1, 4}
\* what the user sets the cells of the other columns of the tool table to
CellInputs == {PyFloat(3, 0)}
\* the tool numbers the user sets in column 0 of the tool table
ToolNumberInputs == {1, 2}

Edited(id, w) ==
    /\ widgets' = [widgets EXCEPT ![id] = w]
    /\ handler' = "edit"
    /\ calls' = <<>>
    /\ finished' = <<>>
    /\ messageBox' = <<>>
    /\ afterApply' = FALSE
    /\ UNCHANGED <<cfg_window_def, var_dict, configspec, visible, result, scanned,
                   raised, definition_dict, tab_widget, called>>

\* a click on a check box, or the choice of one of its states
editCheckBox(id) ==
    /\ visible /\ widgets[id].class = "CfgCheckBox"
    /\ \E state \in {"Unchecked", "Checked", "PartiallyChecked"} :
           /\ state = "PartiallyChecked" => widgets[id].tristate
           /\ Edited(id, [widgets[id] EXCEPT !.checkState = state])

\* the box accepts a value within its range
SpinBoxTyped(id, box, x) ==
    /\ ~NumLess(x, box.minimum) /\ ~NumLess(box.maximum, x)
    /\ Edited(id, [widgets[id] EXCEPT !.spinbox.value = x])

\* a value typed into a spin box
editSpinBox(id) ==
    /\ visible /\ IsSpinBox(widgets[id])
    /\ \E v \in SpinInputs :
           SpinBoxTyped(id, widgets[id].spinbox,
                        AsHeld(widgets[id].spinbox, PyInt(v)))

\* a text typed into a line edit: no more than maxLength characters
editLineEdit(id) ==
    /\ visible /\ IsLineEdit(widgets[id])
    /\ \E text \in TextInputs :
           /\ Len(text) <= widgets[id].maxLength
           /\ Edited(id, [widgets[id] EXCEPT !.lineedit = text])

\* the choice of an item of a combo box
editComboBox(id) ==
    /\ visible /\ widgets[id].class = "CfgComboBox"
    /\ \E index \in 0..(Len(widgets[id].items) - 1) :
           Edited(id, [widgets[id] EXCEPT !.currentIndex = index])

\* the add button of a table (button_add.clicked -> appendLine), whatever
\* the selection is
clickAdd(id) ==
    /\ visible /\ IsTable(widgets[id])
    /\ Len(widgets[id].rows) < MaxRows
    /\ widgets[id].max_tool_number < MaxToolNumber
    /\ \E currentRow \in -1..(Len(widgets[id].rows) - 1), hasSelection \in BOOLEAN :
           Edited(id, appendLine(widgets[id], None, currentRow, hasSelection))

\* the remove button of a table (button_remove.clicked -> removeLine)
clickRemove(id) ==
    /\ visible /\ IsTable(widgets[id])
    /\ \E currentRow \in -1..(Len(widgets[id].rows) - 1) :
           Edited(id, removeLine(widgets[id], currentRow))

\* a value set in the spin box of a cell of the tool table
editToolCell(id) ==
    /\ visible /\ widgets[id].class = "CfgTableToolParameters"
    /\ \E line \in 1..Len(widgets[id].rows) :
           \E column \in 1..Len(widgets[id].rows[line]) :
               \E cell \in IF column = 1 THEN {PyInt(n) : n \in ToolNumberInputs}
                           ELSE CellInputs :
                   Edited(id, [widgets[id] EXCEPT !.rows[line][column] = cell])

Next ==
    \/ accept
    \/ applyChanges
    \/ reject
    \/ show
    \/ \E id \in DOMAIN widgets : editCheckBox(id)
    \/ \E id \in DOMAIN widgets : editSpinBox(id)
    \/ \E id \in DOMAIN widgets : editLineEdit(id)
    \/ \E id \in DOMAIN widgets : editComboBox(id)
    \/ \E id \in DOMAIN widgets : clickAdd(id)
    \/ \E id \in DOMAIN widgets : clickRemove(id)
    \/ \E id \in DOMAIN widgets : editToolCell(id)

Spec == Init /\ [][Next]_vars

\* ------------------------------------------------------------------------
\* configspecParser called on its own: the specs and comment lists it is
\* given
\* ------------------------------------------------------------------------
\* an argument between the parentheses of a spec: its text, what it is (a
\* bare value, min=..., max=..., a quoted string, a string with only its
\* opening quote, something else) and what its value reads as: int(value),
\* float(value), or the text between the quotes
Arg(text, key, inner, asInt, asFloat) ==
    [text |-> text, key |-> key, inner |-> inner, int |-> asInt, float |-> asFloat]

ArgInputs ==
    {Arg(<<"5">>, "bare", <<>>, PyInt(5), PyFloat(5, 0)),
     Arg(<<" ", "1", "2">>, "bare", <<>>, PyInt(12), PyFloat(12, 0)),
     Arg(<<"2", ".", "5">>, "bare", <<>>, None, PyFloat(2, 500)),
     Arg(<<"m", "i", "n", "=", "3">>, "min", <<>>, PyInt(3), PyFloat(3, 0)),
     Arg(<<" ", "m", "i", "n", " ", "=", " ", "-", "7">>, "min", <<>>,
         PyInt(-7), PyFloat(-7, 0)),
     Arg(<<"m", "i", "n", "=", "x">>, "min", <<>>, None, None),
     Arg(<<"m", "a", "x", "=", "9">>, "max", <<>>, PyInt(9), PyFloat(9, 0)),
     Arg(<<" ", "m", "a", "x", " ", "=", " ", "1", ".", "5">>, "max", <<>>,
         None, PyFloat(1, 500)),
     Arg(<<"d", "e", "f", "a", "u", "l", "t", "=", "4">>, "other", <<>>, None, None),
     Arg(<<"'", "a", "'">>, "quoted", <<"a">>, None, None),
     Arg(<<" ", "\"", "b", "\"">>, "quoted", <<"b">>, None, None),
     Arg(<<"'", "c">>, "open", <<"c">>, None, None),
     Arg(<<" ", "d", "e", "f", "a", "u", "l", "t", " ", "=", " ", "'", "a", "'">>,
         "other", <<>>, None, None),
     Arg(<<>>, "empty", <<>>, None, None)}

\* most arguments of a spec
MaxArgs == 2

ArgLists == UNION {[1..n -> ArgInputs] : n \in 0..MaxArgs}

\* the checks of validate.py that the config files use, and one the parser
\* does not know
KindInputs == {"integer", "string", "float", "option", "boolean"}

KindChars(kind) ==
    CASE kind = "integer" -> <<"i", "n", "t", "e", "g", "e", "r">>
      [] kind = "string" -> <<"s", "t", "r", "i", "n", "g">>
      [] kind = "float" -> <<"f", "l", "o", "a", "t">>
      [] kind = "option" -> <<"o", "p", "t", "i", "o", "n">>
      [] kind = "boolean" -> <<"b", "o", "o", "l", "e", "a", "n">>

\* kind(arg1,arg2,...)
SpecString(kind, args) ==
    KindChars(kind) \o <<"(">>
    \o join(<<",">>, [i \in 1..Len(args) |-> args[i].text]) \o <<")">>

\* strings that are not of the form kind(...)
MalformedInputs ==
    {<<>>,
     <<"i", "n", "t", "e", "g", "e", "r">>,
     <<"i", "n", "t", "e", "g", "e", "r", "(", "5">>,
     <<")", "f", "l", "o", "a", "t", "(">>,
     <<"o", "p", "t", "i", "o", "n", "(", "'", "a", "'">>}

\* the configspec of a table (a ConfigObj section), with and without the
\* __many__ section
MappingInputs ==
    {ConfigSpec(<<
         <<"__many__", ConfigSpec(<<
             <<"diameter", PyStr(<<"f", "l", "o", "a", "t", "(", ")">>), <<>> >>,
             <<"speed", PyStr(<<"f", "l", "o", "a", "t", "(", ")">>), <<>> >> >>),
           <<>> >> >>),
     ConfigSpec(<< <<"__many__", ConfigSpec(<<>>), <<>> >> >>),
     ConfigSpec(<< <<"__many__", PyStr(<<"x">>), <<>> >> >>),
     ConfigSpec(<< <<"diameter", PyStr(<<"f", "l", "o", "a", "t", "(", ")">>), <<>> >> >>),
     ConfigSpec(<<>>)}

\* the comment lines ConfigObj keeps for an entry
FragmentInputs ==
    {<<"#", " ", "a">>, <<"#", " ", "b">>, <<" ", "#", "a", "#", "b", " ">>,
     <<"#">>, <<>>}

\* most comment lines of an entry
MaxComments == 2

CommentLists == UNION {[1..n -> FragmentInputs] : n \in 0..MaxComments}

\* a call of configspecParser: the arguments, and how the spec was made
Given(spec, kind, args, comments) ==
    [configspec |-> spec, kind |-> kind, args |-> args, comments |-> comments]

ScanInputs ==
    {Given(PyStr(SpecString(kind, args)), kind, args, <<>>) :
         kind \in KindInputs, args \in ArgLists}
    \cup {Given(PyStr(string), "malformed", <<>>, <<>>) : string \in MalformedInputs}
    \cup {Given(mapping, "mapping", <<>>, <<>>) : mapping \in MappingInputs}
    \cup {Given(PyStr(SpecString("integer", <<>>)), "integer", <<>>, comments) :
              comments \in CommentLists}

\* configspecParser has not returned yet
NotReturned == [type |-> "pending"]

\* no dialog is open: the parser is a method that reads nothing of self
ScanInit ==
    /\ scanned \in {[given |-> given, result |-> NotReturned] : given \in ScanInputs}
    /\ cfg_window_def = OrderedDict(<<>>, EmptyFn)
    /\ var_dict = None
    /\ configspec = None
    /\ widgets = EmptyFn
    /\ visible = FALSE
    /\ result = Rejected
    /\ handler = "none"
    /\ calls = <<>>
    /\ finished = <<>>
    /\ messageBox = <<>>
    /\ afterApply = FALSE
    /\ raised = "none"
    /\ definition_dict = OrderedDict(<<>>, EmptyFn)
    /\ tab_widget = <<>>
    /\ called = None

\* self.configspecParser(configspec, comments)
scan ==
    /\ scanned.result = NotReturned
    /\ scanned' = [scanned EXCEPT
                      !.result = configspecParser(scanned.given.configspec,
                                                  scanned.given.comments)]
    /\ UNCHANGED <<cfg_window_def, var_dict, configspec, widgets, visible, result,
                   handler, calls, finished, messageBox, afterApply, raised,
                   definition_dict, tab_widget, called>>

ScanNext == scan

ScanSpec == ScanInit /\ [][ScanNext]_vars

\* ------------------------------------------------------------------------
\* A widget on its own: the methods the dialog calls on it, and the buttons
\* of a table
\* ------------------------------------------------------------------------
\* a widget as its constructor returned it, with the arguments it was given
Made(widget, args) == [widget |-> widget, args |-> args]

\* the separators of the list fields
SeparatorInputs == {<<",">>, <<" ">>}
\* the size_max of the list fields
SizeMaxInputs == {None, PyInt(2)}

WidgetInputs ==
    {Made(CfgListEdit("Extensions", separator, size_max),
          <<"Extensions", separator, size_max>>) :
        separator \in SeparatorInputs, size_max \in SizeMaxInputs}
    \cup {Made(CfgLineEdit("File name", PyInt(1), PyInt(3)),
               <<"File name", PyInt(1), PyInt(3)>>),
          Made(CfgSpinBox("Number of passes", None, PyInt(5)),
               <<"Number of passes", None, PyInt(5)>>),
          Made(CfgSpinBox("Start depth", PyInt(1), None),
               <<"Start depth", PyInt(1), None>>),
          Made(CfgDoubleSpinBox("Feed rate", PyFloat(1, 0), PyFloat(8, 500), None),
               <<"Feed rate", PyFloat(1, 0), PyFloat(8, 500), None>>),
          Made(CfgTable("Table", PyList(<<"", "diameter">>)),
               <<"Table", PyList(<<"", "diameter">>)>>),
          Made(CfgTableToolParameters("Tools table", PyList(<<"", "diameter">>)),
               <<"Tools table", PyList(<<"", "diameter">>)>>)}

\* the arguments of the specs of the number fields: no bound, a minimum, a
\* maximum, both
BoundArgInputs ==
    {<<>>,
     <<Arg(<<"m", "i", "n", "=", "3">>, "min", <<>>, PyInt(3), PyFloat(3, 0))>>,
     <<Arg(<<"m", "a", "x", "=", "9">>, "max", <<>>, PyInt(9), PyFloat(9, 0))>>,
     <<Arg(<<"m", "i", "n", "=", "3">>, "min", <<>>, PyInt(3), PyFloat(3, 0)),
       Arg(<<"m", "a", "x", "=", "9">>, "max", <<>>, PyInt(9), PyFloat(9, 0))>>}

\* the specs of the configspec entries of a widget
SpecInputs(self) ==
    IF self.class = "CfgSpinBox"
    THEN {SpecString("integer", args) : args \in BoundArgInputs}
    ELSE IF self.class = "CfgDoubleSpinBox"
    THEN {SpecString("float", args) : args \in BoundArgInputs}
    ELSE IF IsLineEdit(self)
    THEN {SpecString("string", args) :
             args \in {<<>>,
                       <<Arg(<<"m", "a", "x", "=", "3">>, "max", <<>>, PyInt(3), PyFloat(3, 0))>>}}
    ELSE {}

\* the entries of the mappings a table is set to: with a value for the
\* column, and without
Entry == Config(<< <<"diameter", PyStr(<<"3">>)>> >>)
NoEntry == Config(<<>>)

\* the values the dialog sets a widget to
ValueInputs(self) ==
    IF IsSpinBox(self) THEN {PyInt(2), PyInt(7)}
    ELSE IF self.class = "CfgLineEdit" THEN {PyStr(text) : text \in TextInputs}
    ELSE IF self.class = "CfgListEdit"
    THEN {PyStr(<<>>), PyStr(<<"a">>),
          PyList(<< <<"a">> >>), PyList(<< <<"a">>, <<"b">> >>),
          PyList(<< <<>>, <<"a", " ", "b">> >>)}
    ELSE {Config(<< <<<<"1">>, Entry>> >>),
          Config(<< <<<<"2">>, Entry>>, <<<<"1">>, Entry>> >>),
          Config(<< <<<<"1", "0">>, Entry>>, <<<<"9">>, Entry>> >>),
          Config(<< <<<<"1">>, NoEntry>>, <<<<"2">>, Entry>> >>),
          Config(<< <<<<"1">>, Entry>>, <<<<"2">>, NoEntry>> >>),
          Config(<< <<<<"a">>, Entry>> >>),
          Config(<< <<<<"b">>, Entry>>, <<<<"1", "0">>, Entry>> >>)}

\* what a setter returns
Returned(self, value) ==
    IF IsTable(self)
    THEN [type |-> "bool", v |-> CfgTable_setValueResult(self, value).result]
    ELSE None

Call(method, args, returned) == [method |-> method, args |-> args, returned |-> returned]

WidgetInit ==
    /\ \E made \in WidgetInputs :
           /\ widgets = [w |-> made.widget]
           /\ called = Call("__init__", made.args, None)
    /\ cfg_window_def = OrderedDict(<<>>, EmptyFn)
    /\ var_dict = None
    /\ configspec = None
    /\ visible = FALSE
    /\ result = Rejected
    /\ handler = "none"
    /\ calls = <<>>
    /\ finished = <<>>
    /\ messageBox = <<>>
    /\ afterApply = FALSE
    /\ scanned = None
    /\ raised = "none"
    /\ definition_dict = OrderedDict(<<>>, EmptyFn)
    /\ tab_widget = <<>>

\* the widget after a call, and the call
Did(w, method, args, returned) ==
    /\ widgets' = [widgets EXCEPT !.w = w]
    /\ called' = Call(method, args, returned)
    /\ UNCHANGED <<cfg_window_def, var_dict, configspec, visible, result, handler,
                   calls, finished, messageBox, afterApply, scanned, raised,
                   definition_dict, tab_widget>>

\* item.setSpec(self.configspecParser(configspec[section], comments))
callSetSpec ==
    \E spec \in SpecInputs(widgets.w) :
        Did(setSpec(widgets.w, configspecParser(PyStr(spec), <<>>)), "setSpec",
            <<configspecParser(PyStr(spec), <<>>)>>, None)

\* item.setValue(config[section]), as long as the tool numbers are small
callSetValue ==
    \E value \in ValueInputs(widgets.w) :
        /\ IsTable(widgets.w) => setValue(widgets.w, value).max_tool_number <= MaxToolNumber
        /\ Did(setValue(widgets.w, value), "setValue", <<value>>,
               Returned(widgets.w, value))

\* item.getValue()
callGetValue == Did(widgets.w, "getValue", <<>>, getValue(widgets.w))

\* item.validateValue()
callValidateValue == Did(widgets.w, "validateValue", <<>>, validateValue(widgets.w))

\* button_add.clicked -> appendLine()
callAppendLine ==
    /\ IsTable(widgets.w)
    /\ Len(widgets.w.rows) < MaxRows
    /\ widgets.w.max_tool_number < MaxToolNumber
    /\ \E currentRow \in -1..(Len(widgets.w.rows) - 1), hasSelection \in BOOLEAN :
           Did(appendLine(widgets.w, None, currentRow, hasSelection), "appendLine",
               <<None>>, None)

\* button_remove.clicked -> removeLine()
callRemoveLine ==
    /\ IsTable(widgets.w)
    /\ \E currentRow \in -1..(Len(widgets.w.rows) - 1) :
           Did(removeLine(widgets.w, currentRow), "removeLine", <<>>, None)

WidgetNext ==
    \/ callSetSpec
    \/ callSetValue
    \/ callGetValue
    \/ callValidateValue
    \/ callAppendLine
    \/ callRemoveLine

WidgetSpec == WidgetInit /\ [][WidgetNext]_vars

\* ------------------------------------------------------------------------
\* Properties
\* ------------------------------------------------------------------------
RECURSIVE WidgetLeavesFrom(_, _, _)
\* the widget leaves of a window definition from its i-th key on, each with
\* the path of section names that leads to it
WidgetLeavesFrom(window_def, path, i) ==
    IF i > Len(window_def.keys) THEN <<>>
    ELSE LET section == window_def.keys[i]
             item == window_def.val[section]
             here == IF section = "__section_title__" THEN <<>>
                     ELSE IF item.type = "dict"
                     THEN WidgetLeavesFrom(item, Append(path, section), 1)
                     ELSE IF item.type = "QWidget"
                     THEN <<[path |-> Append(path, section), id |-> item.id]>>
                     ELSE <<>>
         IN  here \o WidgetLeavesFrom(window_def, path, i + 1)

WidgetLeaves == WidgetLeavesFrom(cfg_window_def, <<>>, 1)

RECURSIVE ConfigAt(_, _)
\* the entry of the configuration at a path, when every name of the path exists
ConfigAt(config, path) ==
    IF path = <<>> THEN [found |-> TRUE, v |-> config]
    ELSE IF config.type = "dict" /\ Head(path) \in DOMAIN config.val
    THEN ConfigAt(config.val[Head(path)], Tail(path))
    ELSE [found |-> FALSE, v |-> None]

\* the leaves the configuration has an entry for
ConfigLeaves == {k \in 1..Len(WidgetLeaves) : ConfigAt(var_dict, WidgetLeaves[k].path).found}

\* every entry of the configuration that has a widget holds that widget's value
Committed ==
    \A k \in ConfigLeaves :
        ConfigAt(var_dict, WidgetLeaves[k].path).v = getValue(widgets[WidgetLeaves[k].id])

\* some entry of the configuration differs from the value of its widget
Pending == \E k \in ConfigLeaves :
               ConfigAt(var_dict, WidgetLeaves[k].path).v # getValue(widgets[WidgetLeaves[k].id])

\* the tool tables of the dialog
ToolTables == {id \in DOMAIN widgets : widgets[id].class = "CfgTableToolParameters"}

\* the tool numbers of the rows of a table, and whether two rows share one
ToolNumbers(w) == {w.rows[i][1].v : i \in {r \in 1..Len(w.rows) : Len(w.rows[r]) > 0}}
Repeated(w) ==
    \E i, j \in 1..Len(w.rows) :
        i # j /\ Len(w.rows[i]) > 0 /\ Len(w.rows[j]) > 0 /\ w.rows[i][1] = w.rows[j][1]

\* C1: after a Confirm whose validation succeeded, the method has validated,
\* then updated the configuration, then closed the dialog: every entry of the
\* configuration that has a widget holds the widget's value, the result is
\* Accepted, and the finished signal carried the updated configuration.
C1_ConfirmCommitsThenCloses ==
    (handler = "accept" /\ Validated) =>
        /\ calls = <<"validateConfiguration", "updateConfiguration", "QDialog.done">>
        /\ Committed
        /\ ~visible
        /\ result = Accepted
        /\ finished = <<[result |-> Accepted, var_dict |-> var_dict]>>

C1_Witness ==
    /\ handler = "accept" /\ Validated /\ result = Accepted /\ ~visible
    /\ ConfigAt(var_dict, <<"General", "Depth", "passes">>).v = PyInt(1)

\* C2: a Confirm or Apply whose validation fails leaves the configuration, the
\* visibility and the result code as they were, emits no finished signal and
\* shows the errors; and whenever a method updates the configuration, the call
\* just before was a validation that succeeded.
C2_FailedValidationChangesNothing ==
    [][/\ (handler' \in {"accept", "applyChanges"} /\ ~Validated) =>
              /\ var_dict' = var_dict
              /\ visible' /\ visible
              /\ result' = result
              /\ finished' = <<>>
              /\ calls' = <<"validateConfiguration", "displayMessageBox">>
       /\ \A i \in 1..Len(calls') :
              calls'[i] = "updateConfiguration" =>
                  i > 1 /\ calls'[i - 1] = "validateConfiguration" /\ Validated]_vars

C2_Witness ==
    /\ handler \in {"accept", "applyChanges"} /\ ~Validated
    /\ messageBox # <<>> /\ visible /\ Pending

\* C3: a step changes the configuration only if it is a Confirm or an Apply
\* whose validation succeeded.
C3_OnlyConfirmAndApplyModify ==
    [][var_dict' # var_dict => handler' \in {"accept", "applyChanges"} /\ Validated]_vars

C3_Witness == handler = "reject" /\ result = Rejected /\ ~visible /\ Pending

\* C4 (as the specification states it): after a Cancel every widget whose
\* entry the configuration has reads as that entry, and the result is Rejected.
C4_CancelRestoresEveryWidget ==
    handler = "reject" => Committed /\ result = Rejected /\ ~visible

\* C5: after an Apply whose validation succeeded the configuration holds the
\* widgets' values, the result is Applied, which is neither Accepted nor
\* Rejected, and the dialog is still shown, which is all that Confirm, Cancel
\* and Apply need to run: Confirm would end in Accepted and Cancel in Rejected.
C5_ApplyCommitsAndStaysOpen ==
    (handler = "applyChanges" /\ Validated) =>
        /\ calls = <<"validateConfiguration", "updateConfiguration", "setResult">>
        /\ Committed
        /\ result = Applied /\ Applied \notin {Accepted, Rejected}
        /\ finished = <<[result |-> Applied, var_dict |-> var_dict]>>
        /\ visible
        /\ ConfigWindow_accept(Self).result = Accepted
        /\ ~ConfigWindow_accept(Self).visible
        /\ ConfigWindow_reject(Self).result = Rejected
        /\ ~ConfigWindow_reject(Self).visible

C5_Witness ==
    /\ handler = "applyChanges" /\ Validated /\ result = Applied /\ visible
    /\ ConfigAt(var_dict, <<"Units", "unit">>).v = PyStr(<<"m", "m">>)

\* C6: a Confirm that runs right after an Apply whose validation succeeded
\* leaves the configuration as the Apply left it.
C6_ConfirmAfterApplyChangesNothing ==
    [][(JustApplied /\ handler' = "accept") => var_dict' = var_dict]_vars

C6_Witness ==
    /\ handler = "accept" /\ afterApply /\ result = Accepted
    /\ ConfigAt(var_dict, <<"Paths", "exts">>).v = PyList(<< <<"a">> >>)

\* C7 (as the specification states it): when the widgets have just been
\* populated from the configuration, updating the configuration from them
\* leaves it as it is.
C7_PopulateThenCommitIsIdentity ==
    handler \in {"__init__", "reject"} =>
        updateConfiguration(widgets, cfg_window_def, var_dict) = var_dict

\* C8: the validation of the window definition fails exactly when the
\* validation of some widget leaf fails, its report holds the errors of every
\* leaf that fails, and it is empty when none does.
C8_ValidationAggregates ==
    LET r == validateConfiguration(widgets, cfg_window_def)
        invalid == {k \in 1..Len(WidgetLeaves) :
                        validateValue(widgets[WidgetLeaves[k].id]).ok = FALSE}
    IN  /\ r.ok = (invalid = {})
        /\ \A k \in invalid :
               \A e \in RangeOf(validateValue(widgets[WidgetLeaves[k].id]).errors) :
                   e \in RangeOf(r.errors)
        /\ \A k \in invalid : validateValue(widgets[WidgetLeaves[k].id]).errors # <<>>
        /\ invalid = {} => r.errors = <<>>

C8_Witness ==
    /\ Cardinality({k \in 1..Len(WidgetLeaves) :
                        validateValue(widgets[WidgetLeaves[k].id]).ok = FALSE}) >= 2
    /\ Len(validateConfiguration(widgets, cfg_window_def).errors) >= 2
    /\ ~Validated

\* C9: a tool table in which two rows have the same tool number fails its
\* validation with the duplicate error, whose count is the number of rows
\* minus the number of distinct tool numbers.
C9_DuplicateToolNumbers ==
    \A id \in ToolTables :
        LET w == widgets[id]
        IN  Repeated(w) =>
                /\ ~validateValue(w).ok
                /\ [error |-> "Found duplicate elements",
                    count |-> Len(w.rows) - Cardinality(ToolNumbers(w)),
                    table |-> w.label] \in RangeOf(validateValue(w).errors)

C9_Witness ==
    \E id \in ToolTables :
        /\ Repeated(widgets[id]) /\ Len(widgets[id].rows) = MaxRows
        /\ 1 \in ToolNumbers(widgets[id])

\* C10: a tool table none of whose rows has tool number 1 fails its
\* validation with the error that asks for tool number 1, whatever else the
\* validation finds, and also when the table has no rows or no columns.
C10_ToolNumberOneRequired ==
    \A id \in ToolTables :
        LET w == widgets[id]
        IN  1 \notin ToolNumbers(w) =>
                /\ ~validateValue(w).ok
                /\ [error |-> "The table must always contains tool number 1",
                    table |-> w.label] \in RangeOf(validateValue(w).errors)

C10_Witness ==
    \E id \in ToolTables :
        /\ 1 \notin ToolNumbers(widgets[id])
        /\ Len(widgets[id].rows) = 0
        /\ widgets[id].columnCount > 0
        /\ handler = "edit"

\* ------------------------------------------------------------------------
\* Properties of configspecParser (specification ScanSpec)
\* ------------------------------------------------------------------------
\* configspecParser has returned
Scanned == scanned.result # NotReturned

\* the spec is kind(...) with a kind whose bounds the parser reads
BoundKinds == {"integer", "string", "float"}

\* what an argument reads as in the branch of the kind: int() for integer
\* and string, float() for float
Num(kind, arg) == IF kind = "float" THEN arg.float ELSE arg.int

\* the argument sets the minimum when no argument before it did
SetsMinimum(kind, arg) == arg.key \in {"bare", "min"} /\ Num(kind, arg) # None

MinimumSetBefore(kind, args, i) == \E j \in 1..(i - 1) : SetsMinimum(kind, args[j])

\* the argument sets the maximum when no argument before it did
SetsMaximum(kind, args, i) ==
    /\ Num(kind, args[i]) # None
    /\ \/ args[i].key = "max"
       \/ args[i].key = "bare" /\ MinimumSetBefore(kind, args, i)

MaximumSetBefore(kind, args, i) == \E j \in 1..(i - 1) : SetsMaximum(kind, args, j)

\* C11 as stated: in the integer, string and float branches every min=a
\* argument gives minimum = a and every max=b argument gives maximum = b
\* (read as an integer, or as a float in the float branch); an argument
\* whose text does not parse sets no bound.
C11_KeywordBounds ==
    (Scanned /\ scanned.given.kind \in BoundKinds) =>
        \A i \in 1..Len(scanned.given.args) :
            /\ ( /\ scanned.given.args[i].key = "min"
                 /\ Num(scanned.given.kind, scanned.given.args[i]) # None ) =>
                   scanned.result.minimum = Num(scanned.given.kind, scanned.given.args[i])
            /\ ( /\ scanned.given.args[i].key = "max"
                 /\ Num(scanned.given.kind, scanned.given.args[i]) # None ) =>
                   scanned.result.maximum = Num(scanned.given.kind, scanned.given.args[i])

\* C11 amended: a min=a argument that parses gives minimum = a unless an
\* argument before it has set the minimum, a max=b argument that parses
\* gives maximum = b unless an argument before it has set the maximum; an
\* argument that does not parse sets nothing, so a bound that no argument
\* sets stays unset.
C11_KeywordBoundsUnlessSet ==
    (Scanned /\ scanned.given.kind \in BoundKinds) =>
        /\ \A i \in 1..Len(scanned.given.args) :
               /\ ( /\ scanned.given.args[i].key = "min"
                    /\ Num(scanned.given.kind, scanned.given.args[i]) # None
                    /\ ~MinimumSetBefore(scanned.given.kind, scanned.given.args, i) ) =>
                      scanned.result.minimum = Num(scanned.given.kind, scanned.given.args[i])
               /\ ( /\ scanned.given.args[i].key = "max"
                    /\ Num(scanned.given.kind, scanned.given.args[i]) # None
                    /\ ~MaximumSetBefore(scanned.given.kind, scanned.given.args, i) ) =>
                      scanned.result.maximum = Num(scanned.given.kind, scanned.given.args[i])
        /\ ~MinimumSetBefore(scanned.given.kind, scanned.given.args,
                             Len(scanned.given.args) + 1) =>
               scanned.result.minimum = None
        /\ ~MaximumSetBefore(scanned.given.kind, scanned.given.args,
                             Len(scanned.given.args) + 1) =>
               scanned.result.maximum = None

\* float(min = -7, max = 1.5) has been read
C11_Witness ==
    /\ Scanned /\ scanned.given.kind = "float" /\ Len(scanned.given.args) = 2
    /\ scanned.given.args[1].key = "min" /\ scanned.given.args[2].key = "max"
    /\ scanned.result.minimum = PyFloat(-7, 0)
    /\ scanned.result.maximum = PyFloat(1, 500)

RECURSIVE QuotedInners(_)
\* the texts between the quotes of the arguments that are wrapped in a
\* matching pair of quotes, in the order of the arguments
QuotedInners(args) ==
    IF args = <<>> THEN <<>>
    ELSE (IF Head(args).key = "quoted" THEN <<Head(args).inner>> ELSE <<>>)
         \o QuotedInners(Tail(args))

\* C12: for option(...) the allowed tokens are exactly the arguments wrapped
\* in a matching pair of single or double quotes, without the quotes and in
\* their order; every other argument is discarded.
C12_OptionTokens ==
    (Scanned /\ scanned.given.kind = "option") =>
        scanned.result.string_list = QuotedInners(scanned.given.args)

\* the argument is a bare number of the branch of the kind
BareNumber(kind, arg) == arg.key = "bare" /\ Num(kind, arg) # None

\* the positions of the bare numbers among the arguments
BareNumbers(kind, args) == {i \in 1..Len(args) : BareNumber(kind, args[i])}

\* the position of the n-th bare number (n = 1, 2), 0 when there is none
NthBare(kind, args, n) ==
    IF Cardinality(BareNumbers(kind, args)) < n THEN 0
    ELSE CHOOSE i \in BareNumbers(kind, args) :
             Cardinality({j \in BareNumbers(kind, args) : j < i}) = n - 1

\* a min= or max= argument that parses stands before position i
KeywordBefore(kind, args, i) ==
    \E j \in 1..(i - 1) : args[j].key \in {"min", "max"} /\ Num(kind, args[j]) # None

C14_TableColumns ==
    (Scanned /\ scanned.given.kind = "mapping") =>
        /\ scanned.result.minimum = None /\ scanned.result.maximum = None
        /\ scanned.given.configspec \in MappingInputs
        /\ IF /\ "__many__" \in RangeOf(scanned.given.configspec.keys)
              /\ scanned.given.configspec.val["__many__"].type = "dict"
           THEN /\ Len(scanned.result.string_list)
                       = Len(scanned.given.configspec.val["__many__"].keys) + 1
                /\ scanned.result.string_list[1] = ""
                /\ \A i \in 1..Len(scanned.given.configspec.val["__many__"].keys) :
                       scanned.result.string_list[i + 1]
                           = scanned.given.configspec.val["__many__"].keys[i]
           ELSE scanned.result.string_list = <<>>

\* the configspec of a table with two columns has been read
C14_Witness ==
    /\ Scanned /\ scanned.given.kind = "mapping"
    /\ Len(scanned.result.string_list) = 3
    /\ scanned.result.string_list[1] = ""

\* the text from its first to its last character outside a set of characters
Between(text, chars) ==
    IF \A i \in 1..Len(text) : text[i] \in chars THEN <<>>
    ELSE SubSeq(text,
                CHOOSE i \in 1..Len(text) :
                    text[i] \notin chars /\ \A j \in 1..(i - 1) : text[j] \in chars,
                CHOOSE i \in 1..Len(text) :
                    text[i] \notin chars /\ \A j \in (i + 1)..Len(text) : text[j] \in chars)

RECURSIVE Concatenated(_)
\* the comment lines, each without the blanks around it, one after another
Concatenated(lines) ==
    IF lines = <<>> THEN <<>>
    ELSE Between(Head(lines), {" ", "\n"}) \o Concatenated(Tail(lines))

\* a text with a line break in the place of every "#"
Broken(text) == [i \in 1..Len(text) |-> IF text[i] = "#" THEN "\n" ELSE text[i]]

\* C15: the comment is the concatenation of the trimmed comment lines,
\* without the spaces and "#" at its two ends, with a line break for every
\* "#" that remains; it contains no "#" and starts with neither "#" nor a
\* space; the lines "# a" and "# b" give "a", a line break and " b".
C15_CommentAssembled ==
    Scanned =>
        /\ scanned.result.comment
               = Broken(Between(Concatenated(scanned.given.comments), {" ", "#"}))
        /\ \A i \in 1..Len(scanned.result.comment) : scanned.result.comment[i] # "#"
        /\ scanned.result.comment # <<>> => scanned.result.comment[1] \notin {"#", " "}
        /\ scanned.given.comments = << <<"#", " ", "a">>, <<"#", " ", "b">> >> =>
               scanned.result.comment = <<"a", "\n", " ", "b">>

\* the lines "# a" and "# b" have been read
C15_Witness ==
    /\ Scanned
    /\ scanned.given.comments = << <<"#", " ", "a">>, <<"#", " ", "b">> >>
    /\ Len(scanned.result.comment) = 4

\* a bound of a result: unset, or a number
IsBound(v) == v = None \/ v.type \in {"int", "float"}

\* C16: whatever the spec (a string of a kind the parser reads, of another
\* kind or of no kind at all, or a mapping) and whatever the comment lines,
\* configspecParser returns a dict with exactly the four fields, each bound
\* unset or a number, the list a list and the comment a string; a string
\* from which nothing can be read gives no bound and no list.
C16_AlwaysARecord ==
    Scanned =>
        /\ DOMAIN scanned.result = {"minimum", "maximum", "string_list", "comment"}
        /\ IsBound(scanned.result.minimum) /\ IsBound(scanned.result.maximum)
        /\ DOMAIN scanned.result.string_list = 1..Len(scanned.result.string_list)
        /\ DOMAIN scanned.result.comment = 1..Len(scanned.result.comment)
        /\ scanned.given.kind \notin BoundKinds =>
               scanned.result.minimum = None /\ scanned.result.maximum = None
        /\ scanned.given.kind \in {"malformed", "boolean"} =>
               scanned.result.string_list = <<>>

\* a spec with a bound that is no number and a spec without its closing
\* parenthesis have been read
C16_Witness ==
    /\ Scanned
    /\ \/ /\ scanned.given.kind \in BoundKinds
          /\ \E i \in 1..Len(scanned.given.args) :
                 /\ scanned.given.args[i].key = "min"
                 /\ Num(scanned.given.kind, scanned.given.args[i]) = None
          /\ scanned.result.minimum = None
       \/ /\ scanned.given.kind = "malformed"
          /\ scanned.given.configspec.v # <<>>
          /\ scanned.given.configspec.v[Len(scanned.given.configspec.v)] = "5"

\* ------------------------------------------------------------------------
\* Properties of the dialog, continued (specification Spec)
\* ------------------------------------------------------------------------
\* C17: a Confirm or an Apply whose validation succeeded and a Cancel each
\* emit finished exactly once, with Accepted, Applied and Rejected; when the
\* signal of a Confirm or an Apply is emitted the configuration already holds
\* the values of the widgets; a Confirm or an Apply whose validation failed
\* emits nothing.
C17_FinishedOncePerCycle ==
    /\ handler \in {"accept", "applyChanges", "reject"} =>
           Len(finished) = IF handler = "reject" \/ Validated THEN 1 ELSE 0
    /\ handler = "reject" => finished[1].result = Rejected
    /\ (handler = "accept" /\ Validated) => finished[1].result = Accepted
    /\ (handler = "applyChanges" /\ Validated) => finished[1].result = Applied
    /\ (handler \in {"accept", "applyChanges"} /\ Validated) =>
           \A k \in ConfigLeaves :
               ConfigAt(finished[1].var_dict, WidgetLeaves[k].path).v
                   = getValue(widgets[WidgetLeaves[k].id])

\* an Apply has written a value the configuration did not hold and has
\* emitted the signal
C17_Witness ==
    /\ handler = "applyChanges" /\ Len(finished) = 1
    /\ finished[1].result = Applied
    /\ \E k \in ConfigLeaves :
           /\ widgets[WidgetLeaves[k].id].class = "CfgCheckBox"
           /\ widgets[WidgetLeaves[k].id].checkState = "Checked"
           /\ ConfigAt(finished[1].var_dict, WidgetLeaves[k].path).v
                  = getValue(widgets[WidgetLeaves[k].id])

RECURSIVE NonWidgetLeaf(_)
\* some leaf of the window definition is no QWidget
NonWidgetLeaf(window_def) ==
    \E section \in DOMAIN window_def.val \ {"__section_title__"} :
        IF window_def.val[section].type = "dict"
        THEN NonWidgetLeaf(window_def.val[section])
        ELSE window_def.val[section].type # "QWidget"

\* C19: with an object that is no widget at a leaf of the window definition,
\* no exception leaves the construction (build, populate), a Confirm or an
\* Apply (validate, commit), and the other leaves are handled: the dialog is
\* built and populated, and a Confirm or an Apply that validates commits the
\* value of every widget the configuration has an entry for.
C19_NonWidgetLeavesSkipped ==
    NonWidgetLeaf(cfg_window_def) =>
        /\ raised = "none"
        /\ handler = "__init__" =>
               calls = <<"createWidgetFromDefinitionDict", "setValuesFromConfig">>
        /\ (handler \in {"accept", "applyChanges"} /\ Validated) => Committed

RECURSIVE SchemaAt(_, _)
\* the ConstraintRecord of the entry of the configspec at a path, when every
\* name of the path exists in it
SchemaAt(schema, path) ==
    IF schema = None \/ Head(path) \notin DOMAIN schema.val THEN [found |-> FALSE]
    ELSE IF Len(path) = 1
    THEN [found |-> TRUE,
          record |-> configspecParser(schema.val[Head(path)],
                                      schema.comments[Head(path)])]
    ELSE SchemaAt(schema.val[Head(path)], Tail(path))

\* a widget with the record of its schema entry applied, if it has one
Constrained(w, schema, path) ==
    IF SchemaAt(schema, path).found THEN setSpec(w, SchemaAt(schema, path).record)
    ELSE w

\* what populate makes of the widget of a leaf: constrained, then set to the
\* value of the configuration, when the whole path exists there; else as it was
PopulatedLeaf(w, config, schema, path) ==
    IF ConfigAt(config, path).found
    THEN setValue(Constrained(w, schema, path), ConfigAt(config, path).v)
    ELSE w

\* the dialog was made from the form and no method has run since
FreshFrom(form) ==
    /\ handler = "__init__" /\ raised = "none"
    /\ cfg_window_def = createWidgetFromDefinitionDict(form.definition)
    /\ var_dict = form.config /\ configspec = form.configspec

\* C18: populate (in the constructor, and in every Cancel) sets the value of
\* a leaf widget exactly when the whole path of the leaf exists in the
\* configuration, after the constraints of its schema entry if there is one;
\* every other widget is left as it was, and the leaves after it are still
\* populated.
C18_PopulateFollowsConfig ==
    /\ [](handler = "__init__" /\ raised = "none" =>
              \E i \in 1..Len(Forms) :
                  /\ FreshFrom(Forms[i])
                  /\ \A k \in 1..Len(WidgetLeaves) :
                         widgets[WidgetLeaves[k].id]
                             = PopulatedLeaf(Forms[i].widgets[WidgetLeaves[k].id],
                                             var_dict, configspec, WidgetLeaves[k].path))
    /\ [][handler' = "reject" =>
              \A k \in 1..Len(WidgetLeaves) :
                  widgets'[WidgetLeaves[k].id]
                      = PopulatedLeaf(widgets[WidgetLeaves[k].id],
                                      var_dict, configspec, WidgetLeaves[k].path)]_vars

\* after a Cancel: a check box the configuration has no entry for keeps the
\* state the user gave it, and one that comes after it holds the value and
\* the comment of its entry
C18_Witness ==
    /\ handler = "reject"
    /\ \E k, j \in 1..Len(WidgetLeaves) :
           /\ k < j
           /\ ~ConfigAt(var_dict, WidgetLeaves[k].path).found
           /\ widgets[WidgetLeaves[k].id].class = "CfgCheckBox"
           /\ widgets[WidgetLeaves[k].id].checkState = "Checked"
           /\ ConfigAt(var_dict, WidgetLeaves[j].path).found
           /\ SchemaAt(configspec, WidgetLeaves[j].path).found
           /\ widgets[WidgetLeaves[j].id].class = "CfgCheckBox"
           /\ widgets[WidgetLeaves[j].id].checkState = "PartiallyChecked"
           /\ widgets[WidgetLeaves[j].id].whatsThis # <<>>

\* the tables that were given no columns, at their construction or in a spec
BareTables == {id \in DOMAIN widgets : IsTable(widgets[id]) /\ widgets[id].keys = <<>>}

\* the values getValue returns
IsValue(v) == v.type \in {"int", "float", "str", "list", "dict"}

\* C20: without a configspec every widget returns a value from getValue; a
\* table that was given no columns takes no row from setValue, which reports
\* that it failed, and returns an empty dict from getValue, whatever the
\* configuration holds for it and whatever the user has added.
C20_NoConstraintsNoFailure ==
    /\ configspec = None => \A id \in DOMAIN widgets : IsValue(getValue(widgets[id]))
    /\ \A k \in ConfigLeaves :
           WidgetLeaves[k].id \in BareTables =>
               /\ getValue(widgets[WidgetLeaves[k].id]) = PyDict(EmptyFn)
               /\ setValue(widgets[WidgetLeaves[k].id],
                           ConfigAt(var_dict, WidgetLeaves[k].path).v).rows
                      = widgets[WidgetLeaves[k].id].rows
               /\ handler = "__init__" => widgets[WidgetLeaves[k].id].rows = <<>>

\* a table without columns, to which the user has added a line, has been
\* populated again from a configuration that holds a tool for it
C20_Witness ==
    /\ handler = "reject" /\ configspec = None
    /\ \E k \in ConfigLeaves :
           /\ WidgetLeaves[k].id \in BareTables
           /\ Len(widgets[WidgetLeaves[k].id].rows) > 0
           /\ DOMAIN ConfigAt(var_dict, WidgetLeaves[k].path).v.val # {}

\* ------------------------------------------------------------------------
\* Properties of the build
\* ------------------------------------------------------------------------
\* the top-level sections of a window definition
SectionsOf(definition) == DOMAIN definition.val \ {"__section_title__"}

\* the title map the caller gave, as a function; empty when there was none
GivenTitles ==
    IF "__section_title__" \in DOMAIN definition_dict.val
    THEN definition_dict.val["__section_title__"].val
    ELSE EmptyFn

\* the name with a space for every underscore
Spaced(name) ==
    PyStr([i \in 1..Len(Chars(name)) |->
              IF Chars(name)[i] = "_" THEN " " ELSE Chars(name)[i]])

\* the title a section is to be shown with
DisplayTitle(section) ==
    IF section \in DOMAIN GivenTitles THEN GivenTitles[section]
    ELSE IF /\ definition_dict.val[section].type = "dict"
            /\ "__section_title__" \in DOMAIN definition_dict.val[section].val
    THEN definition_dict.val[section].val["__section_title__"]
    ELSE Spaced(section)

\* C21: after the build every top-level section has an entry in the
\* top-level title map: the one the map held already, else the section's own
\* __section_title__, else its name with spaces for the underscores; the map
\* holds the entries it held before and nothing but these and the sections';
\* every other part of the window definition is as the caller passed it.
C21_TitlesAdded ==
    raised = "none" =>
        /\ DOMAIN cfg_window_def.val = DOMAIN definition_dict.val \cup {"__section_title__"}
        /\ \A k \in SectionsOf(definition_dict) :
               /\ cfg_window_def.val[k] = definition_dict.val[k]
               /\ cfg_window_def.val["__section_title__"].val[k] = DisplayTitle(k)
        /\ DOMAIN cfg_window_def.val["__section_title__"].val
               = SectionsOf(definition_dict) \cup DOMAIN GivenTitles
        /\ \A k \in DOMAIN GivenTitles :
               cfg_window_def.val["__section_title__"].val[k] = GivenTitles[k]
        /\ SelectSeq(cfg_window_def.keys, LAMBDA k : k # "__section_title__")
               = SelectSeq(definition_dict.keys, LAMBDA k : k # "__section_title__")

\* a dialog built from a definition whose title map named one section and
\* not the others, one of which has a title of its own and one an underscore
\* in its name
C21_Witness ==
    /\ raised = "none" /\ handler = "__init__"
    /\ \E a, b, c \in SectionsOf(definition_dict) :
           /\ a \in DOMAIN GivenTitles
           /\ definition_dict.val[a].type = "dict"
           /\ "__section_title__" \in DOMAIN definition_dict.val[a].val
           /\ cfg_window_def.val["__section_title__"].val[a]
                  # definition_dict.val[a].val["__section_title__"]
           /\ b \notin DOMAIN GivenTitles
           /\ definition_dict.val[b].type = "dict"
           /\ "__section_title__" \in DOMAIN definition_dict.val[b].val
           /\ cfg_window_def.val["__section_title__"].val[b]
                  = definition_dict.val[b].val["__section_title__"]
           /\ c \notin DOMAIN GivenTitles
           /\ cfg_window_def.val["__section_title__"].val[c] # PyStr(Chars(c))
           /\ cfg_window_def.val["__section_title__"].val[c] = Spaced(c)

RECURSIVE PathLess(_, _)
\* a path of names comes before another: name by name, in the order of
\* sorted()
PathLess(p, q) ==
    IF q = <<>> THEN FALSE
    ELSE IF p = <<>> THEN TRUE
    ELSE IF Head(p) = Head(q) THEN PathLess(Tail(p), Tail(q))
    ELSE StrLess(Chars(Head(p)), Chars(Head(q)))

\* the widgets in the layout of a tab, in their order
WidgetsOf(tab) ==
    [i \in 1..Len(SelectSeq(tab.layout, LAMBDA item : item.kind = "widget")) |->
        SelectSeq(tab.layout, LAMBDA item : item.kind = "widget")[i].id]

\* the widget leaves of the sections that are shown with a title
LeavesOf(text) ==
    {k \in 1..Len(WidgetLeaves) :
        cfg_window_def.val["__section_title__"].val[WidgetLeaves[k].path[1]] = text}

\* C22: the tabs have distinct titles, one for every title a top-level
\* section is shown with; the widgets of a tab are the widget leaves of the
\* sections with its title, each once, in the order of their paths: by
\* sorted section name, then by sorted key at every level below.
C22_OneTabPerTitle ==
    raised = "none" =>
        /\ \A i, j \in 1..Len(tab_widget) :
               tab_widget[i].text = tab_widget[j].text => i = j
        /\ {tab_widget[i].text : i \in 1..Len(tab_widget)}
               = {cfg_window_def.val["__section_title__"].val[k] :
                      k \in SectionsOf(cfg_window_def)}
        /\ \A i \in 1..Len(tab_widget) :
               /\ Len(WidgetsOf(tab_widget[i]))
                      = Cardinality(LeavesOf(tab_widget[i].text))
               /\ \A k \in LeavesOf(tab_widget[i].text) :
                      WidgetsOf(tab_widget[i])[
                          1 + Cardinality({j \in LeavesOf(tab_widget[i].text) :
                                              PathLess(WidgetLeaves[j].path,
                                                       WidgetLeaves[k].path)})]
                          = WidgetLeaves[k].id

\* four sections in three tabs, one of them with the widgets of two
\* sections, in an order that is not the order of the definition
C22_Witness ==
    /\ raised = "none" /\ Len(tab_widget) = 3
    /\ Cardinality(SectionsOf(cfg_window_def)) = 4
    /\ \E i \in 1..Len(tab_widget) :
           /\ WidgetsOf(tab_widget[i]) = <<"l1", "l2", "l3">>
           /\ \E j, k \in LeavesOf(tab_widget[i].text) :
                  j < k /\ PathLess(WidgetLeaves[k].path, WidgetLeaves[j].path)

\* ------------------------------------------------------------------------
\* Properties of the validation and of the commit
\* ------------------------------------------------------------------------
RECURSIVE ErrorsFrom(_)
\* the errors of the widget leaves from the k-th on, leaf after leaf in the
\* order of the window definition
ErrorsFrom(k) ==
    IF k > Len(WidgetLeaves) THEN <<>>
    ELSE validateValue(widgets[WidgetLeaves[k].id]).errors \o ErrorsFrom(k + 1)

\* C23: the report of the validation is the errors of the widget leaves one
\* after another, in the order the keys have in the window definition at
\* every level (which is not the sorted order of the build); a Confirm or an
\* Apply that fails shows them in that order.
C23_ErrorsInDefinitionOrder ==
    raised = "none" =>
        /\ validateConfiguration(widgets, cfg_window_def).errors = ErrorsFrom(1)
        /\ (handler \in {"accept", "applyChanges"} /\ ~Validated) =>
               SubSeq(messageBox, 2, Len(messageBox)) = ErrorsFrom(1)

\* a Confirm has failed on two leaves; the one reported first comes second
\* in its tab
C23_Witness ==
    /\ handler = "accept" /\ Len(messageBox) = 3
    /\ \E j, k \in 1..Len(WidgetLeaves) :
           /\ j < k
           /\ messageBox[2] \in RangeOf(validateValue(widgets[WidgetLeaves[j].id]).errors)
           /\ messageBox[3] \in RangeOf(validateValue(widgets[WidgetLeaves[k].id]).errors)
           /\ PathLess(WidgetLeaves[k].path, WidgetLeaves[j].path)

\* ------------------------------------------------------------------------
\* Properties of the leaves the configuration has no entry for
\* ------------------------------------------------------------------------
\* the widget leaves the configuration has no entry for
MissingLeaves == {k \in 1..Len(WidgetLeaves) : k \notin ConfigLeaves}

\* the validation of the widget of the k-th leaf fails
Invalid(k) == ~validateValue(widgets[WidgetLeaves[k].id]).ok

\* the errors of the widget of the k-th leaf are in the message box
Reported(k, box) ==
    \A e \in RangeOf(validateValue(widgets[WidgetLeaves[k].id]).errors) :
        e \in RangeOf(box)

\* C25: the validation succeeds exactly when validateValue succeeds on every
\* widget leaf of the window definition, whether the configuration has an
\* entry for the leaf or not; while a leaf without an entry is invalid, a
\* Confirm or an Apply shows its errors, keeps the dialog open, emits nothing
\* and leaves the configuration as it is.
C25_MissingLeavesAreValidated ==
    /\ [](raised = "none" =>
              /\ Validated = (\A k \in 1..Len(WidgetLeaves) : ~Invalid(k))
              /\ \A k \in MissingLeaves : Invalid(k) => ~Validated)
    /\ [][(/\ handler' \in {"accept", "applyChanges"}
           /\ \E k \in MissingLeaves : Invalid(k)) =>
              /\ var_dict' = var_dict
              /\ visible' /\ finished' = <<>>
              /\ \A k \in MissingLeaves : Invalid(k) => Reported(k, messageBox')]_vars

\* a Confirm has failed on nothing but the tool table, which the
\* configuration has no entry for and which has no tool 1
C25_Witness ==
    /\ handler = "accept" /\ visible /\ Len(messageBox) = 2
    /\ \E k \in MissingLeaves :
           /\ WidgetLeaves[k].id \in ToolTables
           /\ Len(widgets[WidgetLeaves[k].id].rows) > 0
           /\ 1 \notin ToolNumbers(widgets[WidgetLeaves[k].id])
           /\ Reported(k, messageBox)

RECURSIVE Kept(_, _, _)
\* new is old but for the entries that have a widget leaf in the window
\* definition: the same keys at every level the window definition mirrors,
\* and the same values for the entries under __section_title__, for the
\* entries the window definition does not have and for those whose node is
\* not a widget
Kept(old, new, window_def) ==
    IF old.type # "dict" THEN new = old
    ELSE /\ new.type = "dict"
         /\ DOMAIN new.val = DOMAIN old.val
         /\ \A key \in DOMAIN old.val :
                IF key = "__section_title__" \/ key \notin DOMAIN window_def.val
                THEN new.val[key] = old.val[key]
                ELSE IF window_def.val[key].type = "dict"
                THEN Kept(old.val[key], new.val[key], window_def.val[key])
                ELSE window_def.val[key].type # "QWidget" =>
                         new.val[key] = old.val[key]

\* C26: a commit adds no key to the configuration and removes none, at any
\* level the window definition mirrors; it assigns only to keys the
\* configuration has and whose node is a widget leaf: the entries without a
\* widget leaf and those under __section_title__ keep their values, and a
\* leaf whose key the configuration lacks gets no entry.
C26_CommitKeepsTheKeys == [][Kept(var_dict, var_dict', cfg_window_def)]_vars

\* a Confirm has written the file name; the configuration still has the
\* extensions, which have no widget, and its titles, and no entry for the
\* units, whose widgets it has no key for
C26_Witness ==
    /\ handler = "accept" /\ Validated
    /\ ConfigAt(var_dict, <<"Paths", "name">>).v = PyStr(<<"a", ",", "b">>)
    /\ ConfigAt(var_dict, <<"Paths", "exts">>).v = ConfigAt(TitledConfig, <<"Paths", "exts">>).v
    /\ ConfigAt(var_dict, <<"General", "__section_title__">>).found
    /\ ConfigAt(var_dict, <<"__section_title__", "Units">>).found
    /\ ~ConfigAt(var_dict, <<"Units">>).found

\* ------------------------------------------------------------------------
\* Properties of a widget on its own
\* ------------------------------------------------------------------------
\* C24: a list field made by CfgListEdit(text, separator, size_max) holds
\* texts of at most size_max characters and asks for no minimum length: as
\* long as no spec states a minimum (none of this specification does), its
\* validateValue succeeds whatever the text is, the empty text included.
C24_SizeMaxIsMaximum ==
    widgets.w.class = "CfgListEdit" =>
        /\ (called.method = "__init__" /\ called.args[3] # None) =>
               widgets.w.maxLength = called.args[3].v
        /\ validateValue(widgets.w).ok

\* a list of one or more strings, none of which contains the separator or
\* starts or ends with a space
Plain(value, separator) ==
    /\ value.type = "list" /\ Len(value.v) >= 1
    /\ \A i \in 1..Len(value.v) :
           /\ ~contains(value.v[i], separator)
           /\ strip(value.v[i], {" "}) = value.v[i]

\* the list field has just been set to such a list
SetToPlainList ==
    /\ widgets.w.class = "CfgListEdit" /\ called.method = "setValue"
    /\ Plain(called.args[1], widgets.w.separator)

\* C29 as stated: the list field returns every such list it was set to
C29_RoundTrip == SetToPlainList => getValue(widgets.w) = called.args[1]

\* C29: with a separator of one character that is not a space, the list
\* field returns every list of one or more strings, free of the separator and
\* of leading and trailing spaces, that it was set to, provided the items
\* joined by the separator and a space are no longer than the maximum length
\* of the field.
C29_RoundTripWithinLength ==
    (/\ SetToPlainList
     /\ Len(widgets.w.separator) = 1 /\ widgets.w.separator # <<" ">>
     /\ Len(join(widgets.w.separator \o <<" ">>, called.args[1].v))
            <= widgets.w.maxLength)
        => getValue(widgets.w) = called.args[1]

\* two items, the second with a space inside, were written with the
\* separator and a space between them and read back
C29_Witness ==
    /\ SetToPlainList
    /\ widgets.w.lineedit = <<",", " ", "a", " ", "b">>
    /\ getValue(widgets.w) = PyList(<< <<>>, <<"a", " ", "b">> >>)

\* a spec has just been applied to a number field
SpecApplied == IsSpinBox(widgets.w) /\ called.method = "setSpec"

\* C27: setSpec on an integer or float field sets both bounds of the box: to
\* the bound the record states, or else to -1000000000 (minimum) and
\* 1000000000 (maximum), whatever the bounds were before; a bound given to the
\* constructor is gone once a record without that bound is applied.
C27_SpecReplacesBothBounds ==
    SpecApplied =>
        /\ NumEq(widgets.w.spinbox.minimum,
                 IF called.args[1].minimum # None THEN called.args[1].minimum
                 ELSE PyInt(DefaultMinimum))
        /\ NumEq(widgets.w.spinbox.maximum,
                 IF called.args[1].maximum # None THEN called.args[1].maximum
                 ELSE PyInt(DefaultMaximum))

\* the field made with the maximum 5 has been given a spec that states a
\* minimum only, and its maximum is 1000000000
C27_Witness ==
    /\ SpecApplied /\ widgets.w.text = "Number of passes"
    /\ called.args[1].minimum = PyInt(3) /\ called.args[1].maximum = None
    /\ widgets.w.spinbox.maximum = PyInt(1000000000)

\* a table with columns has just been set to a mapping
TableSet ==
    /\ IsTable(widgets.w) /\ called.method = "setValue"
    /\ called.args[1].type = "dict" /\ Len(widgets.w.keys) > 0

\* the keys of a mapping in ascending order: as numbers when all of them
\* read as numbers, as strings otherwise
Ascending(value) == SortedKeys(DOMAIN value.val, AllFloats(DOMAIN value.val))

\* how many entries, in that order, come before the first one that lacks a
\* value for a column
Leading(self, value) ==
    CHOOSE n \in 0..Len(Ascending(value)) :
        /\ \A i \in 1..n : Complete(self, value.val[Ascending(value)[i]])
        /\ n < Len(Ascending(value)) =>
               ~Complete(self, value.val[Ascending(value)[n + 1]])

\* the rows are the entries before the first incomplete one, in ascending
\* order of their keys, and setValue returned whether there was none
FilledInOrder ==
    TableSet =>
        /\ Len(widgets.w.rows) = Leading(widgets.w, called.args[1])
        /\ widgets.w.class = "CfgTable" =>
               \A i \in 1..Len(widgets.w.rows) :
                   widgets.w.rows[i] = <<Ascending(called.args[1])[i], <<"3">> >>
        /\ called.returned.v
               = (Leading(widgets.w, called.args[1]) = Len(Ascending(called.args[1])))

\* C28: setValue with a mapping, on a table with columns, empties the table
\* and inserts the entries in ascending order of their keys up to the first
\* one that lacks a value for a column; it returns True exactly when no entry
\* lacks one; setting the table to the same mapping again gives the same rows.
C28_SetValueInOrderAndRepeatable ==
    /\ FilledInOrder
    /\ TableSet => setValue(widgets.w, called.args[1]).rows = widgets.w.rows

\* the widget is a tool table
IsToolTable == widgets.w.class = "CfgTableToolParameters"

\* row i of the table after the step holds the tool number n
NumberedAfter(n) ==
    \E i \in 1..Len(widgets'.w.rows) : widgets'.w.rows[i][1] = PyInt(n)

\* the step appends a row without a key, or populates the table with one
\* entry whose key is not an integer
KeylessRow ==
    \/ called'.method = "appendLine"
    \/ /\ called'.method = "setValue"
       /\ Cardinality(DOMAIN called'.args[1].val) = 1
       /\ called'.returned.v
       /\ \A k \in DOMAIN called'.args[1].val : ~pyint(PyStr(k)).ok

\* C30: in a tool table max_tool_number never decreases, whether the table is
\* populated, a row is appended or a row is removed; it is at least every
\* tool number setCellValue has written to column 0; a row that is appended
\* with an empty key, or with a key that is not an integer, gets the tool
\* number max_tool_number + 1, which is max_tool_number from then on.
C30_MaxToolNumberGrows ==
    /\ [](IsToolTable =>
              \A i \in 1..Len(widgets.w.rows) :
                  widgets.w.rows[i][1].v <= widgets.w.max_tool_number)
    /\ [][IsToolTable =>
              /\ widgets'.w.max_tool_number >= widgets.w.max_tool_number
              /\ KeylessRow =>
                     /\ widgets'.w.max_tool_number = widgets.w.max_tool_number + 1
                     /\ NumberedAfter(widgets.w.max_tool_number + 1)]_vars

\* a row was appended, removed, and another one appended: it is tool 2
C30_Witness ==
    /\ IsToolTable /\ called.method = "appendLine"
    /\ widgets.w.max_tool_number = 2
    /\ Len(widgets.w.rows) = 1 /\ widgets.w.rows[1][1] = PyInt(2)

=============================================================================
